---------------------------- MODULE Spec2Model ----------------------------
(***************************************************************************)
(* Manual Channel Aligner: the transform engine (core.apply_transform and  *)
(* the crop matrices of app.py), the alignment tag, the loader and the     *)
(* load / edit / save session of ManualChannelAlignerApp.                  *)
(*                                                                         *)
(* Numbers.  Lengths are kept in fixed point so that the arithmetic of the *)
(* code is exact:                                                          *)
(*   - TransformState.dx / .dy are counted in half pixels (the default     *)
(*     fine step is 0.5 px), so dx = 2 is one pixel;                       *)
(*   - a sampling position is kept doubled: pixel k covers the doubled     *)
(*     interval [2k, 2k+2) and its centre k + 0.5 is the odd number 2k+1;  *)
(*   - angle_deg is in whole degrees and the model uses quarter turns, for *)
(*     which cos and sin are exactly 0, 1 or -1.                           *)
(* Images are 8-bit ("L") bands: a band is a function from the pixel grid  *)
(* to 0..255.                                                              *)
(***************************************************************************)
EXTENDS Integers, Sequences, FiniteSets, TLC

VARIABLES
    \* ---- transform engine, applied to one drawn input ----
    t_image,        \* the source image
    t_state,        \* the TransformState
    t_resample,     \* the resampling filter
    t_full,         \* apply_transform(t_image, t_state, t_resample), or NoImage
    t_rect,         \* the output rectangle <<x0, y0, w, h>>, or NoRect
    t_crop,         \* _transform_crop of t_rect, or NoImage
    \* ---- add_alignment_tag, applied to one drawn metadata directory ----
    g_info,         \* the directory the caller passes in
    g_calls,        \* how many times add_alignment_tag has been applied
    g_once,         \* add_alignment_tag(g_info)
    g_twice,        \* add_alignment_tag(add_alignment_tag(g_info))
    \* ---- load_channels_from_paths, applied to one drawn list of paths ----
    l_paths,        \* the paths the caller passes in
    l_result,       \* what the call returned or raised, or NotLoaded
    \* ---- ManualChannelAlignerApp: the session ----
    channels,               \* the full-resolution channel images
    preview_channels,       \* the working copies of _build_preview_channels
    display_channels,       \* the gray display images of _rebuild_display_cache
    transforms,             \* one TransformState per channel
    reference_index,
    active_index,
    reference_var,          \* selection of the reference combo box
    active_var,             \* selection of the active combo box
    combo_values,           \* number of entries of the two combo boxes
    last_save_path,
    source_paths,
    tiffinfo,
    save_kwargs,
    interp_var,             \* "Nearest", "Bilinear" or "Bicubic"
    \* ---- ManualChannelAlignerApp: display and view settings ----
    auto_levels_var,
    display_min_var,
    display_max_var,
    brightness_var,         \* percent
    opacity_var,            \* percent
    zoom_var,               \* percent
    view,                   \* <<xview, yview>> of the canvas, percent
    preview_quality_var,    \* tenths of a megapixel
    fast_preview_var,
    preview_quality_backup, \* _preview_quality_backup, 0 for None
    use_gpu_var,
    gpu_available,
    full_res_view_var,
    \* ---- the files, the save dialog and the outputs of the last handler ----
    disk,                   \* the absolute paths of the files that exist
    pc,                     \* "idle", "save_dialog", or the message box that is open
    output_path,            \* the last answer of the save dialog
    shown,                  \* the message box on screen
    saved,                  \* the save_channels call the last handler made
    \* ---- a helper function of app.py or core.py, applied to one drawn call ----
    u_fn,           \* the function called
    u_args,         \* its arguments
    u_called,       \* whether the call has been made
    u_result,       \* what it returned
    \* ---- ManualChannelAlignerApp: rendering ----
    render_job,             \* _render_job: the pending timer, 0 for None
    timers,                 \* the timers of after() that are armed
    display_cache_version,  \* _display_cache_version
    overlay_cache_key,      \* _overlay_cache_key, or NoKey
    overlay_cache,          \* _overlay_cache and what it was composed from, or NoOverlay
    canvas,                 \* what the last render drew
    \* ---- ManualChannelAlignerApp: the scroll position of the canvas ----
    v_channels,     \* size and bands of the channels, or NoChannels
    v_display,      \* whether display_channels holds the display images
    v_auto,         \* auto_levels_var
    v_quality,      \* preview_quality_var, tenths of a megapixel
    v_fast,         \* fast_preview_var
    v_backup,       \* _preview_quality_backup, 0 for None
    v_full,         \* full_res_view_var
    v_zoom,         \* zoom_var, percent
    v_winfo,        \* winfo_width and winfo_height of the canvas
    v_center,       \* _needs_center_view
    v_scroll,       \* xview()[0] and yview()[0] of the canvas
    v_job,          \* whether _render_job is pending
    v_photo         \* self.photo: 0 for none, else the PhotoImage held

tVars == <<t_image, t_state, t_resample, t_full, t_rect, t_crop>>
gVars == <<g_info, g_calls, g_once, g_twice>>
lVars == <<l_paths, l_result>>
uVars == <<u_fn, u_args, u_called, u_result>>
rVars ==
    <<render_job, timers, display_cache_version, overlay_cache_key, overlay_cache, canvas>>

\* The fields a load assigns.
sessionVars ==
    <<channels, transforms, reference_index, active_index, source_paths, tiffinfo,
      save_kwargs, last_save_path>>
choiceVars == <<reference_var, active_var, combo_values, interp_var>>
aVars ==
    <<sessionVars, choiceVars, preview_channels, display_channels,
      auto_levels_var, display_min_var, display_max_var, brightness_var, opacity_var,
      zoom_var, view, preview_quality_var, fast_preview_var, preview_quality_backup,
      use_gpu_var, gpu_available, full_res_view_var,
      disk, pc, output_path, shown, saved>>

vVars ==
    <<v_channels, v_display, v_auto, v_quality, v_fast, v_backup, v_full, v_zoom,
      v_winfo, v_center, v_scroll, v_job, v_photo>>

vars == <<tVars, gVars, lVars, aVars, uVars, rVars, vVars>>

\* What a step of one part of the model leaves alone.
notT == <<gVars, lVars, aVars, uVars, rVars, vVars>>
notG == <<tVars, lVars, aVars, uVars, rVars, vVars>>
notL == <<tVars, gVars, aVars, uVars, rVars, vVars>>
notU == <<tVars, gVars, lVars, aVars, rVars, vVars>>
notV == <<tVars, gVars, lVars, aVars, uVars, rVars>>
\* The session handlers say themselves what their render leaves.
notA == <<tVars, gVars, lVars, uVars, vVars>>

\* "No image yet" and "no rectangle yet".
NoImage == [w |-> 0, h |-> 0, bands |-> <<>>]
NoRect == <<>>

\* PIL's resampling filters (Image.NEAREST, Image.BILINEAR, Image.BICUBIC).
NEAREST == "NEAREST"
BILINEAR == "BILINEAR"
BICUBIC == "BICUBIC"
Filters == {NEAREST, BILINEAR, BICUBIC}

----------------------------------------------------------------------------
\* Bounds of the model.

\* Largest translation, in whole pixels, of a drawn TransformState.
MaxShift == 1
\* Largest number of non-background pixels of a drawn image.
MaxLit == 1

----------------------------------------------------------------------------
\* Images.

Grid(w, h) == (0 .. w - 1) \X (0 .. h - 1)

\* Image.new("L", (w, h), 0)
Blank(w, h) == [p \in Grid(w, h) |-> 0]

MkImage(w, h, bands) == [w |-> w, h |-> h, bands |-> bands]

\* TransformState(dx, dy, angle_deg); dx and dy in half pixels.
TransformState(dx, dy, angle_deg) == [dx |-> dx, dy |-> dy, angle_deg |-> angle_deg]

IdentityState == TransformState(0, 0, 0)

XCLIP(w, x) == IF x < 0 THEN 0 ELSE IF x < w THEN x ELSE w - 1

\* The four taps of the interpolation kernel around a position whose
\* fractional part is 0 (frac2 = 0) or one half (frac2 = 1), and the common
\* denominator of the taps.
Taps(resample, frac2) ==
    IF resample = BILINEAR
    THEN IF frac2 = 0 THEN <<0, 2, 0, 0>> ELSE <<0, 1, 1, 0>>
    ELSE IF frac2 = 0 THEN <<0, 8, 0, 0>> ELSE <<-1, 5, 5, -1>>

TapDen(resample) == IF resample = BILINEAR THEN 2 ELSE 8

\* The value the filter reads at the doubled source position (sx2, sy2) of a
\* w x h band; a position outside the image leaves the fill colour 0.
Sample(px, w, h, resample, sx2, sy2) ==
    IF sx2 < 0 \/ sx2 >= 2 * w \/ sy2 < 0 \/ sy2 >= 2 * h
    THEN 0
    ELSE IF resample = NEAREST
    THEN px[<<sx2 \div 2, sy2 \div 2>>]
    ELSE LET x == (sx2 - 1) \div 2
             y == (sy2 - 1) \div 2
             kx == Taps(resample, (sx2 - 1) % 2)
             ky == Taps(resample, (sy2 - 1) % 2)
             Row(j) == kx[1] * px[<<XCLIP(w, x - 1), XCLIP(h, y - 2 + j)>>]
                     + kx[2] * px[<<XCLIP(w, x), XCLIP(h, y - 2 + j)>>]
                     + kx[3] * px[<<XCLIP(w, x + 1), XCLIP(h, y - 2 + j)>>]
                     + kx[4] * px[<<XCLIP(w, x + 2), XCLIP(h, y - 2 + j)>>]
             sum == ky[1] * Row(1) + ky[2] * Row(2) + ky[3] * Row(3) + ky[4] * Row(4)
             den == TapDen(resample) * TapDen(resample)
         IN  IF sum <= 0 THEN 0
             ELSE IF sum >= 255 * den THEN 255
             ELSE sum \div den

\* The affine matrix (a0, a1, a2, b0, b1, b2); a2 and b2 are kept doubled.
Matrix(a0, a1, a2, b0, b1, b2) == [a0 |-> a0, a1 |-> a1, a2 |-> a2, b0 |-> b0, b1 |-> b1, b2 |-> b2]

\* image.transform((out_w, out_h), Image.AFFINE, m, resample=resample, fillcolor=0):
\* output pixel (x, y) reads the source at m applied to its centre (x + 0.5, y + 0.5).
AffineTransform(image, out_w, out_h, m, resample) ==
    MkImage(out_w, out_h,
        [b \in DOMAIN image.bands |->
            [p \in Grid(out_w, out_h) |->
                Sample(image.bands[b], image.w, image.h, resample,
                       m.a0 * (2 * p[1] + 1) + m.a1 * (2 * p[2] + 1) + m.a2,
                       m.b0 * (2 * p[1] + 1) + m.b1 * (2 * p[2] + 1) + m.b2)]])

\* cos and sin of a whole number of quarter turns.
Quarter(angle_deg) == (angle_deg \div 90) % 4

Cos4(angle_deg) == CASE Quarter(angle_deg) = 0 -> 1
                     [] Quarter(angle_deg) = 1 -> 0
                     [] Quarter(angle_deg) = 2 -> -1
                     [] Quarter(angle_deg) = 3 -> 0

Sin4(angle_deg) == CASE Quarter(angle_deg) = 0 -> 0
                     [] Quarter(angle_deg) = 1 -> 1
                     [] Quarter(angle_deg) = 2 -> 0
                     [] Quarter(angle_deg) = 3 -> -1

\* image.rotate(angle, resample=resample, expand=False, fillcolor=0): the
\* rotation about the centre (w/2, h/2) into a frame of the same size.  (For
\* 180 degrees, and for 90 / 270 degrees of a square image, PIL transposes
\* instead, which gives the same pixels.)
Rotate(image, angle_deg, resample) ==
    LET c == Cos4(angle_deg)
        s == Sin4(angle_deg)
    IN  AffineTransform(image, image.w, image.h,
            Matrix(c, -s, (-c * image.w) + (s * image.h) + image.w,
                   s, c, (-s * image.w) - (c * image.h) + image.h),
            resample)

\* apply_transform starting from Image.new(image.mode, image.size) instead of
\* image.copy(): an untouched image comes back blank.
ApplyTransformBlankCopy(image, state, resample) ==
    LET rotated == IF state.angle_deg # 0
                   THEN Rotate(image, state.angle_deg, resample)
                   ELSE MkImage(image.w, image.h,
                            [b \in DOMAIN image.bands |-> Blank(image.w, image.h)])
    IN  IF state.dx # 0 \/ state.dy # 0
        THEN AffineTransform(rotated, rotated.w, rotated.h,
                 Matrix(1, 0, -state.dx, 0, 1, -state.dy), resample)
        ELSE rotated

\* apply_transform with the translation (1, 0, dx, 0, 1, dy): the content
\* moves the wrong way.
ApplyTransformSignFlip(image, state, resample) ==
    LET rotated == IF state.angle_deg # 0
                   THEN Rotate(image, state.angle_deg, resample)
                   ELSE image
    IN  IF state.dx # 0 \/ state.dy # 0
        THEN AffineTransform(rotated, rotated.w, rotated.h,
                 Matrix(1, 0, state.dx, 0, 1, state.dy), resample)
        ELSE rotated

\* core.apply_transform: copy, rotate when angle_deg is non-zero, then
\* translate by (-dx, -dy) when dx or dy is non-zero.
ApplyTransform(image, state, resample) ==
    LET rotated == IF state.angle_deg # 0
                   THEN Rotate(image, state.angle_deg, resample)
                   ELSE image
    IN  IF state.dx # 0 \/ state.dy # 0
        THEN AffineTransform(rotated, rotated.w, rotated.h,
                 Matrix(1, 0, -state.dx, 0, 1, -state.dy), resample)
        ELSE rotated

\* app.affine_matrix_for_state
affine_matrix_for_state(state, w, h) ==
    LET ca == Cos4(state.angle_deg)
        sa == Sin4(state.angle_deg)
    IN  Matrix(ca, -sa, (-ca * state.dx) - (ca * w) + (sa * state.dy) + (sa * h) + w,
               sa, ca, (-sa * state.dx) - (sa * w) - (ca * state.dy) - (ca * h) + h)

\* app.affine_matrix_for_crop
affine_matrix_for_crop(state, w, h, out_x0, out_y0) ==
    LET m == affine_matrix_for_state(state, w, h)
    IN  [m EXCEPT !.a2 = m.a2 + 2 * (m.a0 * out_x0 + m.a1 * out_y0),
                  !.b2 = m.b2 + 2 * (m.b0 * out_x0 + m.b1 * out_y0)]

\* image.crop((x0, y0, x0 + w, y0 + h)) for a rectangle inside the image.
Crop(image, x0, y0, w, h) ==
    MkImage(w, h,
        [b \in DOMAIN image.bands |->
            [p \in Grid(w, h) |-> image.bands[b][<<x0 + p[1], y0 + p[2]>>]]])

\* ManualChannelAlignerApp._transform_crop
TransformCrop(image, state, out_x0, out_y0, out_w, out_h, resample) ==
    IF state.dx = 0 /\ state.dy = 0 /\ state.angle_deg = 0
    THEN Crop(image, out_x0, out_y0, out_w, out_h)
    ELSE AffineTransform(image, out_w, out_h,
             affine_matrix_for_crop(state, image.w, image.h, out_x0, out_y0), resample)

----------------------------------------------------------------------------
\* The transform engine applied to drawn inputs (specification SpecTransform).

\* Image sizes of the drawn inputs.  Width and height have the same parity, so
\* that a quarter turn about the centre maps pixel centres to pixel centres.
TSizes == {<<2, 2>>, <<4, 2>>}

\* The single-band images of a size with at most MaxLit pixels at 255.
LitImages(w, h) ==
    {MkImage(w, h, <<[p \in Grid(w, h) |-> IF p \in lit THEN 255 ELSE 0]>>) :
        lit \in {s \in SUBSET Grid(w, h) : Cardinality(s) <= MaxLit}}

TImages == UNION {LitImages(sz[1], sz[2]) : sz \in TSizes}

\* Whole-pixel translations and quarter-turn rotations.
TStates == {TransformState(2 * dx, 2 * dy, a) :
                dx \in -MaxShift .. MaxShift, dy \in -MaxShift .. MaxShift,
                a \in {0, 90, 180, 270}}

\* The rectangles <<x0, y0, w, h>> inside a w x h image.
Rects(w, h) == {r \in (0 .. w - 1) \X (0 .. h - 1) \X (1 .. w) \X (1 .. h) :
                    r[1] + r[3] <= w /\ r[2] + r[4] <= h}

\* The transform inputs when another part of the model is run.
TParked ==
    /\ t_image = NoImage
    /\ t_state = IdentityState
    /\ t_resample = NEAREST
    /\ t_full = NoImage
    /\ t_rect = NoRect
    /\ t_crop = NoImage

TInit ==
    /\ t_image \in TImages
    /\ t_state \in TStates
    /\ t_resample \in Filters
    /\ t_full = NoImage
    /\ t_rect = NoRect
    /\ t_crop = NoImage

\* full = apply_transform(img, state, resample)
TApplyTransform ==
    /\ t_full = NoImage
    /\ t_full' = ApplyTransform(t_image, t_state, t_resample)
    /\ UNCHANGED <<t_image, t_state, t_resample, t_rect, t_crop>>
    /\ UNCHANGED notT

\* crop = _transform_crop(img, state, x0, y0, w, h, resample)
TTransformCrop ==
    /\ t_full # NoImage
    /\ t_crop = NoImage
    /\ \E r \in Rects(t_image.w, t_image.h) :
        /\ t_rect' = r
        /\ t_crop' = TransformCrop(t_image, t_state, r[1], r[2], r[3], r[4], t_resample)
    /\ UNCHANGED <<t_image, t_state, t_resample, t_full>>
    /\ UNCHANGED notT

TNext == TApplyTransform \/ TTransformCrop


----------------------------------------------------------------------------
\* The alignment tag (core.add_alignment_tag).
\*
\* A text is a sequence of characters.  A metadata directory
\* (ImageFileDirectory_v2) is a function from its tags to their values;
\* "tiffinfo" is None or a directory.

\* Longest description (tag 270) of a drawn directory.
MaxDesc == 3

\* TIFF tags: ImageDescription and Software.
DescriptionTag == 270
SoftwareTag == 305

\* The default tag_text, "Manual Aligned", shortened to two characters that
\* keep its shape: mixed case and no character that repeats.
TagText == <<"M", "a">>

\* " | "
TagSeparator == <<" ", "|", " ">>

NoneInfo == [none |-> TRUE, tags |-> <<>>]
Directory(tags) == [none |-> FALSE, tags |-> tags]

\* str.lower() on the characters of the model.
LowerChar(c) == IF c = "M" THEN "m" ELSE IF c = "A" THEN "a" ELSE c
Lower(text) == [i \in 1 .. Len(text) |-> LowerChar(text[i])]

\* The positions at which sub occurs in text, and "sub in text".
Occurrences(sub, text) ==
    {i \in 1 .. (Len(text) - Len(sub) + 1) : SubSeq(text, i, i + Len(sub) - 1) = sub}
Contains(sub, text) == Occurrences(sub, text) # {}

\* directory[tag] = value
SetTag(tags, tag, value) ==
    [t \in (DOMAIN tags) \cup {tag} |-> IF t = tag THEN value ELSE tags[t]]

\* core._copy_tiffinfo: a new directory with the same items.
CopyTiffinfo(directory) == Directory([t \in DOMAIN directory.tags |-> directory.tags[t]])

\* info.get(270); None is the empty text here (both are falsy).
Description(info) ==
    IF DescriptionTag \in DOMAIN info.tags THEN info.tags[DescriptionTag] ELSE <<>>

\* add_alignment_tag that appends without looking for the marker.
AddAlignmentTagAlways(directory, tag_text) ==
    LET info == IF directory.none THEN Directory(<<>>) ELSE CopyTiffinfo(directory)
        existing == Description(info)
    IN  IF existing # <<>>
        THEN Directory(SetTag(info.tags, DescriptionTag, existing \o TagSeparator \o tag_text))
        ELSE Directory(SetTag(info.tags, DescriptionTag, tag_text))

\* core.add_alignment_tag
AddAlignmentTag(directory, tag_text) ==
    LET info == IF directory.none THEN Directory(<<>>) ELSE CopyTiffinfo(directory)
        existing == Description(info)
    IN  IF existing # <<>>
        THEN IF ~Contains(Lower(tag_text), Lower(existing))
             THEN Directory(SetTag(info.tags, DescriptionTag, existing \o TagSeparator \o tag_text))
             ELSE info
        ELSE Directory(SetTag(info.tags, DescriptionTag, tag_text))

\* The texts of at most n characters over an alphabet.
Texts(alphabet, n) == UNION {[1 .. k -> alphabet] : k \in 0 .. n}

\* The drawn directories: None, or a directory with or without a description
\* and with or without another tag.
GInputs ==
    {NoneInfo}
    \cup {Directory(<<>>), Directory(SoftwareTag :> <<"x">>)}
    \cup {Directory(DescriptionTag :> d) : d \in Texts({"M", "m", "a", "x"}, MaxDesc)}
    \cup {Directory((DescriptionTag :> d) @@ (SoftwareTag :> <<"x">>)) :
            d \in Texts({"M", "m", "a", "x"}, MaxDesc)}

GParked ==
    /\ g_info = NoneInfo
    /\ g_calls = 0
    /\ g_once = NoneInfo
    /\ g_twice = NoneInfo

GInit ==
    /\ g_info \in GInputs
    /\ g_calls = 0
    /\ g_once = NoneInfo
    /\ g_twice = NoneInfo

\* updated = add_alignment_tag(info): the function writes to its own copy.
GTagOnce ==
    /\ g_calls = 0
    /\ g_once' = AddAlignmentTag(g_info, TagText)
    /\ g_calls' = 1
    /\ UNCHANGED <<g_info, g_twice>>
    /\ UNCHANGED notG

\* again = add_alignment_tag(updated)
GTagTwice ==
    /\ g_calls = 1
    /\ g_twice' = AddAlignmentTag(g_once, TagText)
    /\ g_calls' = 2
    /\ UNCHANGED <<g_info, g_once>>
    /\ UNCHANGED notG

GNext == GTagOnce \/ GTagTwice


----------------------------------------------------------------------------
\* Paths and files.
\*
\* A path is the sequence of its components: an absolute path starts with
\* "/", and the empty sequence is the empty string.  The working directory of
\* the process is /w.

Cwd == <<"/", "w">>

\* One component of os.path.normpath: "." is dropped, ".." drops the
\* component before it (the root stays).
NormStep(acc, c) ==
    IF c = "." THEN acc
    ELSE IF c = ".." THEN (IF Len(acc) > 1 THEN SubSeq(acc, 1, Len(acc) - 1) ELSE acc)
    ELSE Append(acc, c)

RECURSIVE Normalize(_, _)
Normalize(acc, rest) ==
    IF rest = <<>> THEN acc ELSE Normalize(NormStep(acc, Head(rest)), Tail(rest))

\* os.path.abspath
Abspath(path) ==
    IF path # <<>> /\ path[1] = "/"
    THEN Normalize(<<"/">>, Tail(path))
    ELSE Normalize(Cwd, path)

\* Bands: one bright pixel on black, and one value everywhere.
Spot(w, h, x, y) == [p \in Grid(w, h) |-> IF p = <<x, y>> THEN 255 ELSE 0]
Flat(w, h, v) == [p \in Grid(w, h) |-> v]
Ramp(w, h) == [p \in Grid(w, h) |-> 40 + 50 * p[1] + 20 * p[2]]

\* An image file: whether Image.open can read it, its frames (a frame has one
\* band per channel of its mode), the tag_v2 directory of its first frame
\* (NoneInfo when the format has none) and its info dictionary.
ImageFile(readable, frames, tag_v2, info) ==
    [readable |-> readable, frames |-> frames, tag_v2 |-> tag_v2, info |-> info]

PathA == <<"/", "w", "a.tif">>
PathB == <<"/", "w", "b.tif">>
PathC == <<"/", "w", "c.tif">>
PathStack == <<"/", "w", "stack.tif">>
PathRagged == <<"/", "w", "ragged.tif">>
PathRgb == <<"/", "w", "rgb.png">>
PathLa == <<"/", "w", "la.tif">>
PathRgbStack == <<"/", "w", "rgbstack.tif">>
PathBad == <<"/", "w", "bad.tif">>
PathMissing == <<"/", "w", "missing.tif">>

\* The image files on disk when the program starts.
\*   a.tif, b.tif   4x2 single-band, single-frame: a lit pixel, a ramp of greys
\*   c.tif          2x2 single-band, single-frame
\*   stack.tif      two 2x2 single-band frames, already tagged
\*   ragged.tif     a 2x2 frame and a 4x2 frame
\*   rgb.png        2x2 RGB (10, 20, 30), no TIFF directory
\*   la.tif         2x2 LA (10, 200)
\*   rgbstack.tif   two 2x2 RGB frames
\*   bad.tif        not an image
SourceFiles ==
    (PathA :> ImageFile(TRUE, <<MkImage(4, 2, <<Spot(4, 2, 3, 1)>>)>>,
                Directory(DescriptionTag :> <<"x">>),
                ("dpi" :> "72") @@ ("compression" :> "") @@ ("gamma" :> "1")))
    @@ (PathB :> ImageFile(TRUE, <<MkImage(4, 2, <<Ramp(4, 2)>>)>>,
                Directory(SoftwareTag :> <<"x">>),
                ("dpi" :> "96")))
    @@ (PathC :> ImageFile(TRUE, <<MkImage(2, 2, <<Spot(2, 2, 1, 1)>>)>>,
                Directory(SoftwareTag :> <<"x">>),
                ("compression" :> "lzw")))
    @@ (PathStack :> ImageFile(TRUE,
                <<MkImage(2, 2, <<Spot(2, 2, 0, 0)>>), MkImage(2, 2, <<Spot(2, 2, 1, 0)>>)>>,
                Directory(DescriptionTag :> TagText),
                ("compression" :> "lzw") @@ ("icc_profile" :> "p")))
    @@ (PathRagged :> ImageFile(TRUE,
                <<MkImage(2, 2, <<Spot(2, 2, 0, 0)>>), MkImage(4, 2, <<Spot(4, 2, 0, 0)>>)>>,
                Directory(SoftwareTag :> <<"x">>),
                ("compression" :> "lzw")))
    @@ (PathRgb :> ImageFile(TRUE,
                <<MkImage(2, 2, <<Flat(2, 2, 10), Flat(2, 2, 20), Flat(2, 2, 30)>>)>>,
                NoneInfo,
                ("gamma" :> "1")))
    @@ (PathLa :> ImageFile(TRUE,
                <<MkImage(2, 2, <<Flat(2, 2, 10), Flat(2, 2, 200)>>)>>,
                Directory(SoftwareTag :> <<"x">>),
                ("dpi" :> "72")))
    @@ (PathRgbStack :> ImageFile(TRUE,
                <<MkImage(2, 2, <<Flat(2, 2, 10), Flat(2, 2, 20), Flat(2, 2, 30)>>),
                  MkImage(2, 2, <<Flat(2, 2, 30), Flat(2, 2, 20), Flat(2, 2, 10)>>)>>,
                Directory(SoftwareTag :> <<"x">>),
                ("dpi" :> "72")))
    @@ (PathBad :> ImageFile(FALSE, <<>>, NoneInfo, <<>>))

----------------------------------------------------------------------------
\* The loader (core.load_channels_from_paths).

\* Image.open(path) succeeds: the file exists and is an image.
CanOpen(files, path) ==
    /\ Abspath(path) \in files
    /\ Abspath(path) \in DOMAIN SourceFiles
    /\ SourceFiles[Abspath(path)].readable

\* str(exc) of the exception Image.open raises otherwise.
OpenError(files, path) ==
    IF Abspath(path) \in files
    THEN "cannot identify image file"
    ELSE "No such file or directory"

\* core._extract_tiffinfo: None when the image has no tag_v2 or an empty one.
ExtractTiffinfo(tag_v2) ==
    IF tag_v2.none \/ DOMAIN tag_v2.tags = {} THEN NoneInfo ELSE CopyTiffinfo(tag_v2)

\* core._extract_save_kwargs: dpi, compression and icc_profile, when truthy.
ExtractSaveKwargs(info) ==
    [k \in {key \in (DOMAIN info) \cap {"dpi", "compression", "icc_profile"} : info[key] # ""}
        |-> info[k]]

\* _ensure_same_size that never raises.
EnsureSameSizeAlways(chs) == TRUE

\* core._ensure_same_size: TRUE when it returns, FALSE when it raises.
EnsureSameSize(chs) ==
    Cardinality({<<chs[i].w, chs[i].h>> : i \in DOMAIN chs}) = 1

\* image.split(): one single-band image per band.
Split(image) ==
    [b \in DOMAIN image.bands |-> MkImage(image.w, image.h, <<image.bands[b]>>)]

\* The outcome of a call: the ChannelStack it returns or the error it raises.
ChannelStack(chs, sources, directory, kwargs) ==
    [ok |-> TRUE, error |-> "", channels |-> chs, source_paths |-> sources,
     tiffinfo |-> directory, save_kwargs |-> kwargs]

Raised(error) ==
    [ok |-> FALSE, error |-> error, channels |-> <<>>, source_paths |-> <<>>,
     tiffinfo |-> NoneInfo, save_kwargs |-> <<>>]

\* The single-path branches of the loader, or the error of the size check.
StackOrRaise(chs, paths, file) ==
    IF EnsureSameSize(chs)
    THEN ChannelStack(chs, paths, ExtractTiffinfo(file.tag_v2), ExtractSaveKwargs(file.info))
    ELSE Raised("All channels must have the same dimensions.")

\* load_channels_from_paths that looks at the bands before the frames.
LoadChannelsBandsFirst(paths, files) ==
    IF paths = <<>>
    THEN Raised("No input paths provided.")
    ELSE IF \E i \in DOMAIN paths : ~CanOpen(files, paths[i])
    THEN LET i == CHOOSE k \in DOMAIN paths :
                    ~CanOpen(files, paths[k]) /\ \A j \in 1 .. k - 1 : CanOpen(files, paths[j])
         IN  Raised(OpenError(files, paths[i]))
    ELSE LET image == SourceFiles[Abspath(paths[1])]
         IN  IF Len(paths) > 1
             THEN StackOrRaise([i \in DOMAIN paths |-> SourceFiles[Abspath(paths[i])].frames[1]],
                               paths, image)
             ELSE IF Len(image.frames[1].bands) > 1
             THEN StackOrRaise(Split(image.frames[1]), paths, image)
             ELSE IF Len(image.frames) > 1
             THEN StackOrRaise(image.frames, paths, image)
             ELSE StackOrRaise(<<image.frames[1]>>, paths, image)

\* core.load_channels_from_paths.  With several paths the files are opened in
\* order (the first that cannot be opened raises) and each gives its first
\* frame; the metadata is that of the first file.
LoadChannelsFromPaths(paths, files) ==
    IF paths = <<>>
    THEN Raised("No input paths provided.")
    ELSE IF \E i \in DOMAIN paths : ~CanOpen(files, paths[i])
    THEN LET i == CHOOSE k \in DOMAIN paths :
                    ~CanOpen(files, paths[k]) /\ \A j \in 1 .. k - 1 : CanOpen(files, paths[j])
         IN  Raised(OpenError(files, paths[i]))
    ELSE LET image == SourceFiles[Abspath(paths[1])]
         IN  IF Len(paths) > 1
             THEN StackOrRaise([i \in DOMAIN paths |-> SourceFiles[Abspath(paths[i])].frames[1]],
                               paths, image)
             ELSE IF Len(image.frames) > 1
             THEN StackOrRaise(image.frames, paths, image)
             ELSE IF Len(image.frames[1].bands) > 1
             THEN StackOrRaise(Split(image.frames[1]), paths, image)
             ELSE StackOrRaise(<<image.frames[1]>>, paths, image)

----------------------------------------------------------------------------
\* The loader applied to drawn lists of paths (specification SpecLoad).

\* Longest drawn list of paths.
MaxPaths == 2

\* The spellings of the drawn paths: the files on disk, a.tif spelled
\* relative to the working directory, and a file that does not exist.
LPaths == (DOMAIN SourceFiles) \cup {<<"a.tif">>, <<".", "b.tif">>, PathMissing}

NotLoaded == Raised("not called")

LParked ==
    /\ l_paths = <<>>
    /\ l_result = NotLoaded

LInit ==
    /\ l_paths \in UNION {[1 .. k -> LPaths] : k \in 0 .. MaxPaths}
    /\ l_result = NotLoaded

\* stack = load_channels_from_paths(paths), every file being in place.
LLoad ==
    /\ l_result = NotLoaded
    /\ l_result' = LoadChannelsFromPaths(l_paths, DOMAIN SourceFiles)
    /\ UNCHANGED l_paths
    /\ UNCHANGED notL

LNext == LLoad


----------------------------------------------------------------------------
\* The display images (core.to_display_gray and
\* ManualChannelAlignerApp._rebuild_display_cache).
\*
\* Brightness, opacity and zoom are kept in percent (brightness 1.0 is 100),
\* the preview quality in tenths of a megapixel (2.0 MP is 20).

Min2(a, b) == IF a < b THEN a ELSE b
Max2(a, b) == IF a > b THEN a ELSE b

\* "No range": the None of _display_range and _auto_display_range.
NoRange == <<>>

\* image.convert("L"): the ITU-R 601-2 luma of an RGB image, the L band of
\* an LA image.
ConvertL(image) ==
    IF Len(image.bands) = 1 THEN image
    ELSE IF Len(image.bands) = 2 THEN MkImage(image.w, image.h, <<image.bands[1]>>)
    ELSE MkImage(image.w, image.h,
            <<[p \in Grid(image.w, image.h) |->
                (image.bands[1][p] * 19595 + image.bands[2][p] * 38470
                    + image.bands[3][p] * 7471 + 32768) \div 65536]>>)

\* image.getextrema() of a single-band image.
Extrema(image) ==
    LET values == {image.bands[1][p] : p \in Grid(image.w, image.h)}
    IN  <<CHOOSE lo \in values : \A v \in values : lo <= v,
          CHOOSE hi \in values : \A v \in values : hi >= v>>

\* _auto_display_range raises on an image with several bands: getextrema()
\* then returns one pair per band, and float() of a pair is a TypeError.
AutoRangeRaises(image) == Len(image.bands) > 1

\* ManualChannelAlignerApp._auto_display_range, for a single-band image.
AutoDisplayRange(image) ==
    LET extrema == Extrema(image)
    IN  IF extrema[2] <= extrema[1] THEN NoRange ELSE extrema

\* ManualChannelAlignerApp._display_range
DisplayRange(auto_levels, min_val, max_val) ==
    IF auto_levels THEN NoRange
    ELSE IF max_val <= min_val THEN NoRange
    ELSE <<min_val, max_val>>

\* _apply_display_levels as a contrast stretch between the extrema of the
\* image, whatever the range.
ApplyDisplayLevelsStretch(image, min_val, max_val) ==
    LET gray == ConvertL(image)
        extrema == Extrema(gray)
    IN  IF extrema[2] <= extrema[1] THEN gray
        ELSE MkImage(gray.w, gray.h,
                <<[p \in Grid(gray.w, gray.h) |->
                    ((gray.bands[1][p] - extrema[1]) * 255) \div (extrema[2] - extrema[1])]>>)

\* core._apply_display_levels
ApplyDisplayLevels(image, min_val, max_val) ==
    IF max_val <= min_val
    THEN ConvertL(image)
    ELSE LET gray == ConvertL(image)
         IN  MkImage(gray.w, gray.h,
                <<[p \in Grid(gray.w, gray.h) |->
                    LET v == gray.bands[1][p]
                    IN  IF v <= min_val THEN 0
                        ELSE IF v >= max_val THEN 255
                        ELSE ((v - min_val) * 255) \div (max_val - min_val)]>>)

\* ImageOps.autocontrast(image) of an "L" image: the values between the
\* smallest and the largest are stretched to 0..255; a flat image is returned
\* as it is.
Autocontrast(image) ==
    LET extrema == Extrema(image)
        lo == extrema[1]
        hi == extrema[2]
    IN  IF hi <= lo THEN image
        ELSE MkImage(image.w, image.h,
                <<[p \in Grid(image.w, image.h) |->
                    Max2(0, Min2(255, ((image.bands[1][p] - lo) * 255) \div (hi - lo)))]>>)

\* core.to_display_gray
ToDisplayGray(image, display_range) ==
    IF display_range # NoRange
    THEN ApplyDisplayLevels(image, display_range[1], display_range[2])
    ELSE Autocontrast(ConvertL(image))

\* ImageEnhance.Brightness(gray).enhance(brightness): the blend of black and
\* the image, clipped to 255.
Enhance(gray, brightness) ==
    MkImage(gray.w, gray.h,
        <<[p \in Grid(gray.w, gray.h) |-> Min2(255, (gray.bands[1][p] * brightness) \div 100)]>>)

\* One display image of _rebuild_display_cache.
DisplayGray(channel, manual_range, brightness) ==
    LET display_range == IF manual_range # NoRange THEN manual_range ELSE AutoDisplayRange(channel)
        gray == ToDisplayGray(channel, display_range)
    IN  IF brightness - 100 > 1 \/ 100 - brightness > 1 THEN Enhance(gray, brightness) ELSE gray

\* _rebuild_display_cache raises at the first channel with several bands when
\* no manual range is in force.
RebuildRaises(preview, manual_range) ==
    manual_range = NoRange /\ \E i \in DOMAIN preview : AutoRangeRaises(preview[i])

\* ManualChannelAlignerApp._rebuild_display_cache: the display images it
\* leaves in display_channels (those appended before it raised, if it did).
RebuildDisplayCache(preview, manual_range, brightness) ==
    LET done == {i \in DOMAIN preview :
                    \A j \in 1 .. i : ~(manual_range = NoRange /\ AutoRangeRaises(preview[j]))}
    IN  [i \in 1 .. Cardinality(done) |-> DisplayGray(preview[i], manual_range, brightness)]

\* UiTokens.preview_max_dim
PreviewMaxDim == 1600

\* ManualChannelAlignerApp._preview_target_pixels
PreviewTargetPixels(preview_quality) == Max2(1, preview_quality) * 100000

\* _compute_preview_scale(size) >= 0.999
PreviewScaleIsOne(w, h, preview_quality) ==
    /\ 999 * Max2(w, h) <= 1000 * PreviewMaxDim
    /\ (998001 * w * h + 999999) \div 1000000 <= PreviewTargetPixels(preview_quality)

\* ManualChannelAlignerApp._build_preview_channels.  The drawn images are far
\* inside the preview budget, for which the channel list itself is returned;
\* the downsampled copies of larger images are left abstract.
BuildPreviewChannels(chs, preview_quality) ==
    IF chs = <<>> THEN <<>>
    ELSE IF PreviewScaleIsOne(chs[1].w, chs[1].h, preview_quality) THEN chs
    ELSE [i \in DOMAIN chs |-> NoImage]

----------------------------------------------------------------------------
\* The session of ManualChannelAlignerApp: load, edit, save.
\*
\* The selection variables reference_var and active_var hold "Channel k" as
\* the index k - 1.  A message box is modal: the handler that shows it waits
\* (pc names the box) until the box is dismissed.  saved is the save_channels
\* call of the handler that ran last.

\* Largest total edit of a session: the sum over the channels of |dx| + |dy|
\* in half pixels, a quarter turn of angle_deg counting as two.
MaxEdit == 2

NoPath == <<>>
NoMessage == <<>>
NoCall == [called |-> FALSE, channels |-> <<>>, path |-> NoPath,
           tiffinfo |-> NoneInfo, save_kwargs |-> <<>>]

\* save_channels(channels, path, tiffinfo=tiffinfo, save_kwargs=save_kwargs)
SaveCall(chs, path, info, kwargs) ==
    [called |-> TRUE, channels |-> chs, path |-> path,
     tiffinfo |-> info, save_kwargs |-> kwargs]

PathOut == <<"/", "w", "out.tif">>

\* The lists of paths given to load_images.
AppLoadInputs ==
    {<<<<"a.tif">>, PathB>>, <<PathRgb>>, <<PathRgb, PathRgb>>,
     <<PathA, PathC>>, <<PathA>>, <<PathBad>>}

\* The answers of the save dialog; the empty path is a cancelled dialog.
SaveAnswers == {NoPath, PathOut, PathA, <<".", "a.tif">>}

\* The defaults of "Step size (px)", in half pixels, and of the coarse
\* multiplier; the fine multiplier 0.5 halves the step.
StepVar == 2
CoarseVar == 10

Abs(n) == IF n < 0 THEN -n ELSE n

RECURSIVE EditCost(_)
EditCost(states) ==
    IF states = <<>> THEN 0
    ELSE Abs(Head(states).dx) + Abs(Head(states).dy) + Abs(Head(states).angle_deg) \div 45
            + EditCost(Tail(states))

\* ManualChannelAlignerApp._resample_method
ResampleMethod(label) ==
    IF label = "Nearest" THEN NEAREST
    ELSE IF label = "Bicubic" THEN BICUBIC
    ELSE BILINEAR

\* ManualChannelAlignerApp._channel_index_from_var
ChannelIndexFromVar(value, n) == Max2(0, Min2(value, n - 1))

\* ManualChannelAlignerApp._scaled_step, in half pixels
ScaledStep(modifier) ==
    IF modifier = "shift" THEN StepVar * CoarseVar
    ELSE IF modifier = "alt" THEN StepVar \div 2
    ELSE StepVar

\* ManualChannelAlignerApp._scaled_rot for a step of whole quarter turns (Alt
\* multiplies by 0.2 and leaves the quarter turns, so it is not drawn).
ScaledRot(rot, modifier) == IF modifier = "shift" THEN rot * 10 ELSE rot

\* ManualChannelAlignerApp._is_output_conflict
IsOutputConflict(path, sources) ==
    \E i \in DOMAIN sources : Abspath(sources[i]) = Abspath(path)

\* os.path.exists that finds nothing.
ExistsNever(files, path) == FALSE

\* os.path.exists
Exists(files, path) == Abspath(path) \in files

\* The aligned list of _save_aligned with the reference transformed as well.
AlignedAllTransformed(chs, states, reference, resample) ==
    [i \in DOMAIN chs |-> ApplyTransform(chs[i], states[i], resample)]

\* The aligned list of _save_aligned built from the display images.
AlignedFromDisplay(chs, states, reference, resample) ==
    [i \in DOMAIN chs |->
        LET source == IF i \in DOMAIN display_channels THEN display_channels[i] ELSE chs[i]
        IN  IF i - 1 = reference THEN source
            ELSE ApplyTransform(source, states[i], resample)]

\* The aligned list of _save_aligned: a copy of the reference channel, and
\* apply_transform of every other channel.
Aligned(chs, states, reference, resample) ==
    [i \in DOMAIN chs |->
        IF i - 1 = reference THEN chs[i]
        ELSE ApplyTransform(chs[i], states[i], resample)]

\* What _save_aligned would hand to save_channels now.
ExportImages == Aligned(channels, transforms, reference_index, ResampleMethod(interp_var))

\* The session fields load_images assigns.
Session(chs, states, reference, active, sources, info, kwargs, last) ==
    [channels |-> chs, transforms |-> states, reference_index |-> reference,
     active_index |-> active, source_paths |-> sources, tiffinfo |-> info,
     save_kwargs |-> kwargs, last_save_path |-> last]

CurrentSession ==
    Session(channels, transforms, reference_index, active_index, source_paths,
            tiffinfo, save_kwargs, last_save_path)

\* load_images fails: the loader raised, or gave fewer than two channels.
LoadFails(stack) == ~stack.ok \/ Len(stack.channels) < 2

\* The message box of a failed load.
LoadFailedMessage(stack) ==
    IF ~stack.ok THEN <<"Load failed", stack.error>>
    ELSE <<"Load failed", "Provide at least two channels to align.">>

\* load_images that drops the session when the load fails.
LoadedSessionOrEmpty(stack, current) ==
    IF LoadFails(stack)
    THEN Session(<<>>, <<>>, 0, 0, <<>>, NoneInfo, <<>>, NoPath)
    ELSE Session(stack.channels, [i \in DOMAIN stack.channels |-> IdentityState], 0, 1,
                 stack.source_paths, stack.tiffinfo, stack.save_kwargs, NoPath)

\* The session after load_images: the current one when the load fails (the
\* handler returns before any assignment), the loaded stack otherwise.
LoadedSession(stack, current) ==
    IF LoadFails(stack)
    THEN current
    ELSE Session(stack.channels, [i \in DOMAIN stack.channels |-> IdentityState], 0, 1,
                 stack.source_paths, stack.tiffinfo, stack.save_kwargs, NoPath)

\* ---- Rendering: the canvas, the overlay cache and the render timer ----
\*
\* A handler ends with its render call, which reads the fields the handler
\* has just assigned (the primed variables).  The specifications that do not
\* look at the canvas park it: their handlers leave the render state alone.

\* Largest _display_cache_version a run reaches.
MaxVersion == 2
\* Most timers armed at one time.
MaxTimers == 2

NoKey == <<>>
NoOverlay == [base |-> NoImage, moved |-> NoImage, opacity |-> 0,
              filter |-> "none", backend |-> "none"]

\* What the canvas shows: nothing is looked at ("parked"), the "Drop images
\* here" text of _render_empty_state ("empty"), or the overlay ("view") with
\* the phase and the path of the render, the filter that moved the active
\* channel, the filter that scaled to the display, and the fields rendered.
Canvas(kind, draft, path, move_filter, scale_filter, reference, active, state, opacity, zoom, scroll) ==
    [kind |-> kind, draft |-> draft, path |-> path, move_filter |-> move_filter,
     scale_filter |-> scale_filter, reference |-> reference, active |-> active,
     state |-> state, opacity |-> opacity, zoom |-> zoom, view |-> scroll]

ParkedCanvas ==
    Canvas("parked", FALSE, "none", "none", "none", 0, 0, IdentityState, 0, 0, <<0, 0>>)
EmptyCanvas ==
    Canvas("empty", FALSE, "none", "none", "none", 0, 0, IdentityState, 0, 0, <<0, 0>>)

RParked ==
    /\ render_job = 0 /\ timers = {} /\ display_cache_version = 0
    /\ overlay_cache_key = NoKey /\ overlay_cache = NoOverlay
    /\ canvas = ParkedCanvas

\* ManualChannelAlignerApp.__init__ without paths: _render_empty_state
RInit ==
    /\ render_job = 0 /\ timers = {} /\ display_cache_version = 0
    /\ overlay_cache_key = NoKey /\ overlay_cache = NoOverlay
    /\ canvas = EmptyCanvas

\* What cv2.warpAffine does with a call: it raises, or it returns the pixels
\* of the software path, or it returns other pixels (cv2 is not part of the
\* repository; its pixels are left open).
AccelOutcomes == {"raises", "agrees", "differs"}

\* _transform_preview_cv2: it raises, or it returns the warp of cv2 with
\* INTER_LINEAR; pixels names the resampling that gives the pixels returned.
TransformPreviewCv2(accel) ==
    [raised |-> accel = "raises",
     pixels |-> IF accel = "agrees" THEN BILINEAR ELSE NEAREST]

\* _transform_preview without the except branch.
TransformPreviewNoFallback(image, state, gpu, accel) ==
    LET warped == TransformPreviewCv2(accel)
    IN  [raised |-> gpu /\ warped.raised,
         image |-> IF gpu /\ warped.raised THEN NoImage
                   ELSE ApplyTransform(image, state, IF gpu THEN warped.pixels ELSE BILINEAR),
         filter |-> BILINEAR,
         backend |-> IF ~gpu THEN "software" ELSE IF warped.raised THEN "fallback" ELSE "cv2"]

\* _transform_preview(image, state); gpu is use_gpu_var and gpu_available.
\* The software path, taken as well when the accelerated one raised, is
\* apply_transform(image, state, Image.BILINEAR).
TransformPreview(image, state, gpu, accel) ==
    LET warped == TransformPreviewCv2(accel)
        software == ~gpu \/ warped.raised
    IN  [raised |-> FALSE,
         image |-> ApplyTransform(image, state, IF software THEN BILINEAR ELSE warped.pixels),
         filter |-> BILINEAR,
         backend |-> IF ~gpu THEN "software" ELSE IF warped.raised THEN "fallback" ELSE "cv2"]

\* The key of the overlay in _render_view.
OverlayKey(version) ==
    <<reference_index', active_index', transforms'[active_index' + 1].dx,
      transforms'[active_index' + 1].dy, transforms'[active_index' + 1].angle_deg,
      opacity_var', version>>

\* The canvas after a render of the overlay.
View(draft, path, move_filter) ==
    Canvas("view", draft, path, move_filter, IF draft THEN NEAREST ELSE BILINEAR,
           reference_index', active_index', transforms'[active_index' + 1],
           opacity_var', zoom_var', view')

\* What a render leaves: whether it raised, the cache version, the overlay
\* cache and the canvas.
Outcome(raised, version, key, cache, shows) ==
    [raised |-> raised, version |-> version, key |-> key, cache |-> cache, canvas |-> shows]

\* _render_fullres_view raises in auto mode when a channel has several bands
\* (_auto_display_range_for_index asks _auto_display_range for every channel).
FullresRaises ==
    /\ DisplayRange(auto_levels_var', display_min_var', display_max_var') = NoRange
    /\ \E i \in DOMAIN channels' : AutoRangeRaises(channels'[i])

\* _render_view(draft), entered with the cache (version, key, cache).
\*   - Without channels the empty state is drawn.
\*   - The full-resolution path moves the active channel with _transform_crop
\*     and the filter of the phase; it keeps no overlay.
\*   - The preview path rebuilds the display images when there are none: that
\*     is the case only after a rebuild that raised at the first channel, and
\*     the rebuild raises there again, after it has counted the version up.
\*     The overlay is composed again when its key differs.
\* The drawn images are inside the preview budget, so _scaled_state is the
\* state itself.
\* The rest of _render_view once _transform_preview has returned moved, or
\* has raised: the overlay is kept under its key and shown.
Composed(draft, version, key, cache, result) ==
    CHOOSE outcome \in
        {IF moved.raised
         THEN Outcome(TRUE, version, key, cache, canvas)
         ELSE Outcome(FALSE, version, OverlayKey(version),
                      [base |-> display_channels'[reference_index' + 1],
                       moved |-> moved.image, opacity |-> opacity_var',
                       filter |-> moved.filter, backend |-> moved.backend],
                      View(draft, "preview", moved.filter)) : moved \in {result}} : TRUE

RenderView(draft, version, key, cache, accel) ==
    IF channels' = <<>>
    THEN Outcome(FALSE, version, key, cache, EmptyCanvas)
    ELSE IF full_res_view_var'
    THEN IF FullresRaises
         THEN Outcome(TRUE, version, key, cache, canvas)
         ELSE Outcome(FALSE, version, key, cache,
                      View(draft, "fullres", IF draft THEN NEAREST ELSE BILINEAR))
    ELSE IF display_channels' = <<>>
    THEN Outcome(TRUE, version + 1, NoKey, NoOverlay, canvas)
    ELSE IF key = OverlayKey(version) /\ cache # NoOverlay
    THEN Outcome(FALSE, version, key, cache, View(draft, "preview", cache.filter))
    ELSE IF Max2(reference_index', active_index') >= Len(display_channels')
    THEN Outcome(TRUE, version, key, cache, canvas)
    ELSE Composed(draft, version, key, cache,
                  TransformPreview(display_channels'[active_index' + 1],
                                   transforms'[active_index' + 1],
                                   use_gpu_var' /\ gpu_available', accel))

\* The render of a handler: _rebuild_display_cache first when rebuilt (it
\* counts the version up and drops the overlay unless there is no preview,
\* and the handler ends there when it raises), then _render_view(draft).
RenderOutcome(draft, rebuilt, accel) ==
    LET counted == rebuilt /\ preview_channels' # <<>>
        version == IF counted THEN display_cache_version + 1 ELSE display_cache_version
        key == IF counted THEN NoKey ELSE overlay_cache_key
        cache == IF counted THEN NoOverlay ELSE overlay_cache
    IN  IF counted /\ RebuildRaises(preview_channels',
                DisplayRange(auto_levels_var', display_min_var', display_max_var'))
        THEN Outcome(TRUE, version, key, cache, canvas)
        ELSE RenderView(draft, version, key, cache, accel)

\* The outcomes of cv2 a render may meet.
AccelChoices == IF use_gpu_var' /\ gpu_available' THEN AccelOutcomes ELSE {"raises"}

Flag(b) == IF b THEN 1 ELSE 0

\* The number of display settings away from their defaults.
Tweaks ==
    Flag(~auto_levels_var) + Flag(display_min_var # 0) + Flag(display_max_var # 255)
        + Flag(brightness_var # 100) + Flag(opacity_var # 50) + Flag(zoom_var # 100)
        + Flag(view[1] # 0) + Flag(view[2] # 0)
        + Flag(preview_quality_var # 20) + Flag(fast_preview_var)
        + Flag(use_gpu_var) + Flag(full_res_view_var)

\* Most edits and settings (display settings, interpolation) away from their
\* defaults at one time while the canvas is looked at.
MaxLooked == 2

\* A handler with the canvas looked at ends within that budget.
Looked == EditCost(transforms') + Tweaks' + Flag(interp_var' # "Bilinear") <= MaxLooked

\* The cache and the canvas after a render.
Rendered(outcome) ==
    /\ outcome.version <= MaxVersion
    /\ display_cache_version' = outcome.version
    /\ overlay_cache_key' = outcome.key
    /\ overlay_cache' = outcome.cache
    /\ canvas' = outcome.canvas

\* _render_view(draft=False), after _rebuild_display_cache when rebuilt.
Render(rebuilt) ==
    IF canvas.kind = "parked"
    THEN UNCHANGED rVars
    ELSE /\ Looked
         /\ \E accel \in AccelChoices :
                \E outcome \in {RenderOutcome(FALSE, rebuilt, accel)} : Rendered(outcome)
         /\ UNCHANGED <<render_job, timers>>

\* _schedule_render that arms a timer without cancelling the pending one.
ScheduleRenderNoCancel ==
    IF canvas.kind = "parked"
    THEN UNCHANGED rVars
    ELSE \E accel \in AccelChoices :
          \E outcome \in {RenderOutcome(TRUE, FALSE, accel)} :
            LET id == CHOOSE n \in 1 .. MaxTimers + 1 : n \notin timers
            IN  /\ Looked
                /\ Rendered(outcome)
                /\ IF outcome.raised
                   THEN UNCHANGED <<render_job, timers>>
                   ELSE /\ timers' = timers \cup {id}
                        /\ render_job' = id
                        /\ Cardinality(timers') <= MaxTimers

\* _schedule_render: the draft render, then the pending timer is cancelled
\* and a new one is armed; nothing is armed when the render raised.  A timer
\* is named by a number no timer armed before the call has (Tk never gives
\* the name of a live timer again).
ScheduleRender ==
    IF canvas.kind = "parked"
    THEN UNCHANGED rVars
    ELSE \E accel \in AccelChoices :
          \E outcome \in {RenderOutcome(TRUE, FALSE, accel)} :
            LET kept == timers \ {render_job}
                id == CHOOSE n \in 1 .. MaxTimers + 1 : n \notin timers
            IN  /\ Looked
                /\ Rendered(outcome)
                /\ IF outcome.raised
                   THEN UNCHANGED <<render_job, timers>>
                   ELSE /\ timers' = kept \cup {id}
                        /\ render_job' = id
                        /\ Cardinality(timers') <= MaxTimers

AParked ==
    /\ channels = <<>> /\ preview_channels = <<>> /\ display_channels = <<>>
    /\ transforms = <<>> /\ reference_index = 0 /\ active_index = 0
    /\ reference_var = 0 /\ active_var = 1 /\ combo_values = 0
    /\ last_save_path = NoPath /\ source_paths = <<>>
    /\ tiffinfo = NoneInfo /\ save_kwargs = <<>>
    /\ interp_var = "Bilinear"
    /\ auto_levels_var = TRUE /\ display_min_var = 0 /\ display_max_var = 255
    /\ brightness_var = 100 /\ opacity_var = 50 /\ zoom_var = 100
    /\ view = <<0, 0>>
    /\ preview_quality_var = 20 /\ fast_preview_var = FALSE
    /\ preview_quality_backup = 0
    /\ use_gpu_var = FALSE /\ gpu_available = FALSE /\ full_res_view_var = FALSE
    /\ disk = {} /\ pc = "parked" /\ output_path = NoPath
    /\ shown = NoMessage /\ saved = NoCall

\* ManualChannelAlignerApp.__init__ without paths; gpu tells whether numpy
\* and cv2 can be imported (_init_gpu).
AInit(gpu) ==
    /\ channels = <<>> /\ preview_channels = <<>> /\ display_channels = <<>>
    /\ transforms = <<>> /\ reference_index = 0 /\ active_index = 0
    /\ reference_var = 0 /\ active_var = 1 /\ combo_values = 0
    /\ last_save_path = NoPath /\ source_paths = <<>>
    /\ tiffinfo = NoneInfo /\ save_kwargs = <<>>
    /\ interp_var = "Bilinear"
    /\ auto_levels_var = TRUE /\ display_min_var = 0 /\ display_max_var = 255
    /\ brightness_var = 100 /\ opacity_var = 50 /\ zoom_var = 100
    /\ view = <<0, 0>>
    /\ preview_quality_var = 20 /\ fast_preview_var = FALSE
    /\ preview_quality_backup = 0
    /\ use_gpu_var = FALSE /\ gpu_available \in gpu /\ full_res_view_var = FALSE
    /\ disk = DOMAIN SourceFiles /\ pc = "idle" /\ output_path = NoPath
    /\ shown = NoMessage /\ saved = NoCall

\* load_images(paths)
LoadImages(paths) ==
    /\ pc = "idle"
    /\ LET stack == LoadChannelsFromPaths(paths, disk)
           session == LoadedSession(stack, CurrentSession)
       IN  /\ channels' = session.channels
           /\ transforms' = session.transforms
           /\ reference_index' = session.reference_index
           /\ active_index' = session.active_index
           /\ source_paths' = session.source_paths
           /\ tiffinfo' = session.tiffinfo
           /\ save_kwargs' = session.save_kwargs
           /\ last_save_path' = session.last_save_path
           /\ IF LoadFails(stack)
              THEN /\ shown' = LoadFailedMessage(stack)
                   /\ pc' = "load_error"
                   /\ UNCHANGED <<preview_channels, display_channels, display_min_var,
                                  display_max_var, reference_var, active_var, combo_values>>
              ELSE LET preview == BuildPreviewChannels(stack.channels, preview_quality_var)
                       manual_range == DisplayRange(auto_levels_var, 0, 255)
                   IN  /\ shown' = NoMessage
                       /\ pc' = "idle"
                       /\ preview_channels' = preview
                       /\ display_min_var' = 0
                       /\ display_max_var' = 255
                       /\ display_channels' = RebuildDisplayCache(preview, manual_range, brightness_var)
                       /\ IF RebuildRaises(preview, manual_range)
                          THEN UNCHANGED <<reference_var, active_var, combo_values>>
                          ELSE /\ reference_var' = 0
                               /\ active_var' = 1
                               /\ combo_values' = Len(stack.channels)
    /\ saved' = NoCall
    /\ UNCHANGED <<interp_var, auto_levels_var, brightness_var, opacity_var, zoom_var, view,
                   preview_quality_var, fast_preview_var, preview_quality_backup,
                   use_gpu_var, gpu_available, full_res_view_var, disk, output_path>>
    /\ UNCHANGED notA
    /\ IF LoadFails(LoadChannelsFromPaths(paths, disk))
       THEN UNCHANGED rVars
       ELSE Render(TRUE)

\* "Open Images" or a drop.
Load == \E paths \in AppLoadInputs : LoadImages(paths)

\* _on_channel_change that keeps an active channel equal to the reference.
ChannelChangedSame(ref_var, act_var) ==
    IF channels = <<>>
    THEN /\ reference_var' = ref_var
         /\ active_var' = act_var
         /\ UNCHANGED <<reference_index, active_index>>
    ELSE /\ reference_var' = ref_var
         /\ reference_index' = ChannelIndexFromVar(ref_var, Len(channels))
         /\ active_index' = ChannelIndexFromVar(act_var, Len(channels))
         /\ active_var' = act_var

\* The body of _on_channel_change, after the combo box has set its variable.
ChannelChanged(ref_var, act_var) ==
    IF channels = <<>>
    THEN /\ reference_var' = ref_var
         /\ active_var' = act_var
         /\ UNCHANGED <<reference_index, active_index>>
    ELSE LET ref_idx == ChannelIndexFromVar(ref_var, Len(channels))
             active_idx == ChannelIndexFromVar(act_var, Len(channels))
         IN  /\ reference_var' = ref_var
             /\ reference_index' = ref_idx
             /\ IF active_idx = ref_idx
                THEN /\ active_index' = (ref_idx + 1) % Len(channels)
                     /\ active_var' = (ref_idx + 1) % Len(channels)
                ELSE /\ active_index' = active_idx
                     /\ active_var' = act_var

\* A selection in the reference or the active combo box, then _on_channel_change.
OnChannelChange ==
    /\ pc = "idle"
    /\ \E combo \in {"reference", "active"}, value \in 0 .. combo_values - 1 :
        IF combo = "reference"
        THEN ChannelChanged(value, active_var)
        ELSE ChannelChanged(reference_var, value)
    /\ saved' = NoCall
    /\ UNCHANGED <<channels, preview_channels, display_channels, transforms, combo_values,
                   last_save_path, source_paths, tiffinfo, save_kwargs, interp_var,
                   auto_levels_var, display_min_var, display_max_var, brightness_var,
                   opacity_var, zoom_var, view, preview_quality_var, fast_preview_var,
                   preview_quality_backup, use_gpu_var, gpu_available, full_res_view_var,
                   disk, pc, output_path, shown>>
    /\ UNCHANGED notA
    /\ IF channels = <<>> THEN UNCHANGED rVars ELSE Render(FALSE)

\* A selection in the interpolation combo box, which is bound to
\* _on_channel_change as well.
OnInterpChange ==
    /\ pc = "idle"
    /\ \E label \in {"Nearest", "Bilinear", "Bicubic"} : interp_var' = label
    /\ ChannelChanged(reference_var, active_var)
    /\ saved' = NoCall
    /\ UNCHANGED <<channels, preview_channels, display_channels, transforms, combo_values,
                   last_save_path, source_paths, tiffinfo, save_kwargs,
                   auto_levels_var, display_min_var, display_max_var, brightness_var,
                   opacity_var, zoom_var, view, preview_quality_var, fast_preview_var,
                   preview_quality_backup, use_gpu_var, gpu_available, full_res_view_var,
                   disk, pc, output_path, shown>>
    /\ UNCHANGED notA
    /\ IF channels = <<>> THEN UNCHANGED rVars ELSE Render(FALSE)

\* What the edit handlers leave alone besides the session fields they name.
editFrame ==
    <<channels, preview_channels, display_channels, reference_index, reference_var,
      combo_values, last_save_path, source_paths, tiffinfo, save_kwargs, interp_var,
      auto_levels_var, display_min_var, display_max_var, brightness_var,
      opacity_var, zoom_var, view, preview_quality_var, fast_preview_var,
      preview_quality_backup, use_gpu_var, gpu_available, full_res_view_var,
      disk, pc, output_path, shown>>

\* _cycle_active_channel (Tab)
CycleActiveChannel ==
    /\ pc = "idle"
    /\ IF channels = <<>>
       THEN UNCHANGED <<active_index, active_var>>
       ELSE LET next == (active_index + 1) % Len(channels)
                skip == IF next = reference_index THEN (next + 1) % Len(channels) ELSE next
            IN  /\ active_index' = skip
                /\ active_var' = skip
    /\ saved' = NoCall
    /\ UNCHANGED transforms
    /\ UNCHANGED editFrame
    /\ UNCHANGED notA
    /\ IF channels = <<>> THEN UNCHANGED rVars ELSE Render(FALSE)

\* _move that adds the step to the state of every channel.
MoveActiveEvery ==
    /\ pc = "idle"
    /\ \E d \in {<<-1, 0>>, <<1, 0>>, <<0, -1>>, <<0, 1>>}, modifier \in {"none", "shift", "alt"} :
        IF channels = <<>>
        THEN UNCHANGED transforms
        ELSE LET step == ScaledStep(modifier)
             IN  /\ transforms' = [i \in DOMAIN transforms |->
                        TransformState(transforms[i].dx + d[1] * step,
                                       transforms[i].dy + d[2] * step,
                                       transforms[i].angle_deg)]
                 /\ EditCost(transforms') <= MaxEdit
    /\ saved' = NoCall
    /\ UNCHANGED <<active_index, active_var>>
    /\ UNCHANGED editFrame
    /\ UNCHANGED notA
    /\ IF channels = <<>> THEN UNCHANGED rVars ELSE ScheduleRender

\* _move(dx, dy, event): an arrow key, alone or with Shift or Alt.
MoveActive ==
    /\ pc = "idle"
    /\ \E d \in {<<-1, 0>>, <<1, 0>>, <<0, -1>>, <<0, 1>>}, modifier \in {"none", "shift", "alt"} :
        IF channels = <<>>
        THEN UNCHANGED transforms
        ELSE LET step == ScaledStep(modifier)
                 state == transforms[active_index + 1]
             IN  /\ transforms' = [transforms EXCEPT ![active_index + 1] =
                        TransformState(state.dx + d[1] * step, state.dy + d[2] * step,
                                       state.angle_deg)]
                 /\ EditCost(transforms') <= MaxEdit
    /\ saved' = NoCall
    /\ UNCHANGED <<active_index, active_var>>
    /\ UNCHANGED editFrame
    /\ UNCHANGED notA
    /\ IF channels = <<>> THEN UNCHANGED rVars ELSE ScheduleRender

\* _rotate(direction, event): Q or E, alone or with Shift, with 90 typed
\* into "Rotation step (deg)".
RotateActive ==
    /\ pc = "idle"
    /\ \E direction \in {-1, 1}, rot \in {90}, modifier \in {"none", "shift"} :
        IF channels = <<>>
        THEN UNCHANGED transforms
        ELSE LET state == transforms[active_index + 1]
             IN  /\ transforms' = [transforms EXCEPT ![active_index + 1] =
                        TransformState(state.dx, state.dy,
                                       state.angle_deg + direction * ScaledRot(rot, modifier))]
                 /\ EditCost(transforms') <= MaxEdit
    /\ saved' = NoCall
    /\ UNCHANGED <<active_index, active_var>>
    /\ UNCHANGED editFrame
    /\ UNCHANGED notA
    /\ IF channels = <<>> THEN UNCHANGED rVars ELSE ScheduleRender

\* _reset_active that resets the state of every channel.
ResetActiveEvery ==
    /\ pc = "idle"
    /\ IF channels = <<>>
       THEN UNCHANGED transforms
       ELSE transforms' = [i \in DOMAIN transforms |-> IdentityState]
    /\ saved' = NoCall
    /\ UNCHANGED <<active_index, active_var>>
    /\ UNCHANGED editFrame
    /\ UNCHANGED notA
    /\ IF channels = <<>> THEN UNCHANGED rVars ELSE Render(FALSE)

\* _reset_active (R)
ResetActive ==
    /\ pc = "idle"
    /\ IF channels = <<>>
       THEN UNCHANGED transforms
       ELSE transforms' = [transforms EXCEPT ![active_index + 1] = IdentityState]
    /\ saved' = NoCall
    /\ UNCHANGED <<active_index, active_var>>
    /\ UNCHANGED editFrame
    /\ UNCHANGED notA
    /\ IF channels = <<>> THEN UNCHANGED rVars ELSE Render(FALSE)

\* _reset_all ("Reset All")
ResetAll ==
    /\ pc = "idle"
    /\ IF channels = <<>>
       THEN UNCHANGED transforms
       ELSE transforms' = [i \in DOMAIN transforms |-> IdentityState]
    /\ saved' = NoCall
    /\ UNCHANGED <<active_index, active_var>>
    /\ UNCHANGED editFrame
    /\ UNCHANGED notA
    /\ IF channels = <<>> THEN UNCHANGED rVars ELSE Render(FALSE)

\* What the save handler leaves alone.
saveFrame ==
    <<channels, preview_channels, display_channels, transforms, reference_index,
      active_index, reference_var, active_var, combo_values, source_paths, tiffinfo,
      save_kwargs, interp_var, auto_levels_var, display_min_var, display_max_var,
      brightness_var, opacity_var, zoom_var, view, preview_quality_var,
      fast_preview_var, preview_quality_backup, use_gpu_var, gpu_available,
      full_res_view_var>>

\* _save_aligned up to the first dialog: nothing happens without channels.
SaveBegin ==
    /\ pc = "idle"
    /\ pc' = IF channels = <<>> THEN "idle" ELSE "save_dialog"
    /\ saved' = NoCall
    /\ UNCHANGED <<last_save_path, disk, output_path, shown>>
    /\ UNCHANGED saveFrame
    /\ UNCHANGED notA
    /\ UNCHANGED rVars

\* One round of the loop of _save_aligned: the dialog returns a path.  A
\* cancelled dialog ends the handler; a path of a source, or of an existing
\* file, is refused with a message box; any other path is written, and
\* save_channels either writes the file or raises, with or without a file
\* left behind.  output_path is the local variable of the loop.
SavePrompt ==
    /\ pc = "save_dialog"
    /\ \E answer \in SaveAnswers, outcome \in {"written", "raised", "raised_partial"} :
        IF answer = NoPath
        THEN /\ pc' = "idle"
             /\ output_path' = NoPath
             /\ UNCHANGED <<last_save_path, disk, shown, saved>>
        ELSE IF IsOutputConflict(answer, source_paths)
        THEN /\ pc' = "save_refused"
             /\ output_path' = answer
             /\ shown' = <<"Save failed", "Pick a new filename. Original images are never overwritten.">>
             /\ UNCHANGED <<last_save_path, disk, saved>>
        ELSE IF Exists(disk, answer)
        THEN /\ pc' = "save_refused"
             /\ output_path' = answer
             /\ shown' = <<"Save failed", "File already exists. Choose a new name to avoid overwriting.">>
             /\ UNCHANGED <<last_save_path, disk, saved>>
        ELSE /\ saved' = SaveCall(ExportImages, answer,
                                  AddAlignmentTag(tiffinfo, TagText), save_kwargs)
             /\ output_path' = NoPath
             /\ disk' = IF outcome = "raised" THEN disk ELSE disk \cup {Abspath(answer)}
             /\ IF outcome = "written"
                THEN /\ pc' = "idle"
                     /\ last_save_path' = answer
                     /\ UNCHANGED shown
                ELSE /\ pc' = "save_error"
                     /\ shown' = <<"Save failed", "cannot write file">>
                     /\ UNCHANGED last_save_path
    /\ UNCHANGED saveFrame
    /\ UNCHANGED notA
    /\ UNCHANGED rVars

\* The user closes the message box; the handler that showed it goes on:
\* load_images and the except branch of _save_aligned return, the loop of
\* _save_aligned opens the dialog again.
DismissMessage ==
    /\ pc \in {"load_error", "save_refused", "save_error", "gpu_info"}
    /\ pc' = IF pc = "save_refused" THEN "save_dialog" ELSE "idle"
    /\ shown' = NoMessage
    /\ output_path' = NoPath
    /\ UNCHANGED <<last_save_path, disk, saved>>
    /\ UNCHANGED saveFrame
    /\ UNCHANGED notA
    /\ IF pc = "gpu_info" THEN Render(FALSE)
       ELSE IF pc = "load_error" /\ canvas.kind # "parked"
       THEN /\ canvas' = EmptyCanvas
            /\ UNCHANGED <<render_job, timers, display_cache_version, overlay_cache_key,
                           overlay_cache>>
       ELSE UNCHANGED rVars

\* The session handlers.
Next ==
    \/ Load
    \/ OnChannelChange
    \/ OnInterpChange
    \/ CycleActiveChannel
    \/ MoveActive
    \/ RotateActive
    \/ ResetActive
    \/ ResetAll
    \/ SaveBegin
    \/ SavePrompt
    \/ DismissMessage

----------------------------------------------------------------------------
\* The display controls: levels, brightness, opacity, zoom, scrolling and the
\* preview options.  Percent stands for the factors (zoom 100 is 1.0,
\* opacity 50 is 0.5) and tenths of a megapixel for the preview quality.

\* Most display settings away from their defaults at one time.
MaxTweaks == 2

\* Zoom steps around 100 % the zoom buttons may take; the ends of the zoom
\* range are always allowed.
MaxZoomSteps == 1

\* UiTokens.zoom_min, zoom_max, zoom_step
ZoomMin == 10
ZoomMax == 3200
ZoomStep == 25

\* ManualChannelAlignerApp._clamp_zoom
ClampZoom(value) == Max2(ZoomMin, Min2(ZoomMax, value))

\* The display settings after a handler.
Settings(auto, lo, hi, bright, opacity, zoom, scroll, quality, fast, backup, gpu, full) ==
    /\ auto_levels_var' = auto
    /\ display_min_var' = lo
    /\ display_max_var' = hi
    /\ brightness_var' = bright
    /\ opacity_var' = opacity
    /\ zoom_var' = zoom
    /\ view' = scroll
    /\ preview_quality_var' = quality
    /\ fast_preview_var' = fast
    /\ preview_quality_backup' = backup
    /\ use_gpu_var' = gpu
    /\ full_res_view_var' = full

\* _rebuild_display_cache with the settings of the handler.
RebuiltDisplay(preview, auto, lo, hi, bright) ==
    RebuildDisplayCache(preview, DisplayRange(auto, lo, hi), bright)

\* ManualChannelAlignerApp._rebuild_preview_cache
RebuildPreviewCache(quality) ==
    IF channels = <<>>
    THEN UNCHANGED <<preview_channels, display_channels>>
    ELSE LET preview == BuildPreviewChannels(channels, quality)
         IN  /\ preview_channels' = preview
             /\ display_channels' = RebuiltDisplay(preview, auto_levels_var, display_min_var,
                                                   display_max_var, brightness_var)

\* What every display handler leaves alone; it ends within the tweak budget.
displayFrame ==
    /\ pc = "idle"
    /\ saved' = NoCall
    /\ UNCHANGED <<sessionVars, choiceVars, gpu_available, disk, output_path>>
    /\ UNCHANGED notA
    /\ Tweaks' <= MaxTweaks

\* _on_levels_toggle: the "Auto levels" check box
OnLevelsToggle ==
    /\ Settings(~auto_levels_var, display_min_var, display_max_var, brightness_var,
                opacity_var, zoom_var, view, preview_quality_var, fast_preview_var,
                preview_quality_backup, use_gpu_var, full_res_view_var)
    /\ display_channels' = RebuiltDisplay(preview_channels, ~auto_levels_var, display_min_var,
                                          display_max_var, brightness_var)
    /\ UNCHANGED <<preview_channels, pc, shown>>
    /\ displayFrame
    /\ Render(TRUE)

\* _on_display_adjustment: the min slider dragged to 0 or 64, the max slider
\* to 64 or 255, the brightness slider to 1.0 or 2.0; the first two are
\* disabled while auto levels is on.
OnDisplayAdjustment ==
    /\ \E slider \in {"min", "max", "brightness"}, value \in {0, 64, 100, 200, 255} :
        LET lo == IF slider = "min" THEN value ELSE display_min_var
            hi == IF slider = "max" THEN value ELSE display_max_var
            bright == IF slider = "brightness" THEN value ELSE brightness_var
        IN  /\ slider = "min" => ~auto_levels_var /\ value \in {0, 64}
            /\ slider = "max" => ~auto_levels_var /\ value \in {64, 255}
            /\ slider = "brightness" => value \in {100, 200}
            /\ Settings(auto_levels_var, lo, hi, bright, opacity_var, zoom_var, view,
                        preview_quality_var, fast_preview_var, preview_quality_backup,
                        use_gpu_var, full_res_view_var)
            /\ display_channels' = RebuiltDisplay(preview_channels, auto_levels_var, lo, hi, bright)
    /\ UNCHANGED <<preview_channels, pc, shown>>
    /\ displayFrame
    /\ Render(TRUE)

\* The opacity slider, dragged to 0.5 or 1.0; its command is _schedule_render.
OnOpacity ==
    /\ \E value \in {50, 100} :
        Settings(auto_levels_var, display_min_var, display_max_var, brightness_var,
                 value, zoom_var, view, preview_quality_var, fast_preview_var,
                 preview_quality_backup, use_gpu_var, full_res_view_var)
    /\ UNCHANGED <<preview_channels, display_channels, pc, shown>>
    /\ displayFrame
    /\ ScheduleRender

\* _clamp_zoom after zoom_var has been set to value.
ZoomSet(value) ==
    /\ ClampZoom(value) \in {ZoomMin, ZoomMax}
            \cup (100 - ZoomStep * MaxZoomSteps .. 100 + ZoomStep * MaxZoomSteps)
    /\ Settings(auto_levels_var, display_min_var, display_max_var, brightness_var,
                opacity_var, ClampZoom(value), view, preview_quality_var, fast_preview_var,
                preview_quality_backup, use_gpu_var, full_res_view_var)
    /\ UNCHANGED <<preview_channels, display_channels, pc, shown>>
    /\ displayFrame

\* _on_zoom_slider after zoom_var has been set to value.
ZoomTo(value) == ZoomSet(value) /\ ScheduleRender

\* The zoom slider is dragged to an end of its range.
OnZoomSlider == \E value \in {ZoomMin, ZoomMax} : ZoomTo(value)

\* _zoom_in that takes two steps at a time.
ZoomInCoarse == ZoomTo(zoom_var + 2 * ZoomStep)

\* _zoom_in ("+")
ZoomIn == ZoomTo(zoom_var + ZoomStep)

\* _zoom_out ("-")
ZoomOut == ZoomTo(zoom_var - ZoomStep)

\* _zoom_fit ("Fit")
ZoomFit == ZoomTo(100)

\* _on_mousewheel: a wheel event with delta 0 is ignored.
OnMousewheel ==
    \E delta \in {-120, 0, 120} :
        IF delta = 0 THEN ZoomSet(zoom_var) /\ UNCHANGED rVars
        ELSE ZoomTo(IF delta > 0 THEN zoom_var + ZoomStep ELSE zoom_var - ZoomStep)

\* The canvas view after a scroll request.
ViewTo(axis, fraction) ==
    /\ Settings(auto_levels_var, display_min_var, display_max_var, brightness_var,
                opacity_var, zoom_var, [view EXCEPT ![axis] = fraction],
                preview_quality_var, fast_preview_var, preview_quality_backup,
                use_gpu_var, full_res_view_var)
    /\ UNCHANGED <<preview_channels, display_channels, pc, shown>>
    /\ displayFrame
    /\ ScheduleRender

\* _on_scroll(axis, "moveto", fraction): a scroll bar moved to 0 or to 0.25
OnScroll == \E axis \in {1, 2}, fraction \in {0, 25} : ViewTo(axis, fraction)

\* _do_pan: a drag of the canvas moves both axes.
DoPan ==
    \E x \in {0, 25}, y \in {0, 25} :
        /\ Settings(auto_levels_var, display_min_var, display_max_var, brightness_var,
                    opacity_var, zoom_var, <<x, y>>, preview_quality_var,
                    fast_preview_var, preview_quality_backup, use_gpu_var, full_res_view_var)
        /\ UNCHANGED <<preview_channels, display_channels, pc, shown>>
        /\ displayFrame
        /\ ScheduleRender

\* _on_preview_quality_change: the quality slider has set its variable to
\* 2.0 or 4.0 MP; the preview is rebuilt unless fast preview is on.
OnPreviewQualityChange ==
    /\ \E value \in {20, 40} :
        /\ Settings(auto_levels_var, display_min_var, display_max_var, brightness_var,
                    opacity_var, zoom_var, view, value, fast_preview_var,
                    preview_quality_backup, use_gpu_var, full_res_view_var)
        /\ IF fast_preview_var
           THEN UNCHANGED <<preview_channels, display_channels>>
           ELSE RebuildPreviewCache(value)
    /\ UNCHANGED <<pc, shown>>
    /\ displayFrame
    /\ IF fast_preview_var THEN UNCHANGED rVars ELSE Render(TRUE)

\* _on_fast_preview_toggle that does not remember the quality it replaces.
OnFastPreviewToggleForget ==
    /\ LET fast == ~fast_preview_var
           backup == preview_quality_backup
           quality == IF fast THEN 5
                      ELSE IF preview_quality_backup # 0 THEN preview_quality_backup
                      ELSE preview_quality_var
       IN  /\ Settings(auto_levels_var, display_min_var, display_max_var, brightness_var,
                       opacity_var, zoom_var, view, quality, fast, backup,
                       use_gpu_var, full_res_view_var)
           /\ RebuildPreviewCache(quality)
    /\ UNCHANGED <<pc, shown>>
    /\ displayFrame
    /\ Render(TRUE)

\* _on_fast_preview_toggle: the check box has flipped fast_preview_var; fast
\* preview sets the quality to 0.5 MP and keeps the old one as backup.
OnFastPreviewToggle ==
    /\ LET fast == ~fast_preview_var
           backup == IF fast THEN preview_quality_var ELSE preview_quality_backup
           quality == IF fast THEN 5
                      ELSE IF preview_quality_backup # 0 THEN preview_quality_backup
                      ELSE preview_quality_var
       IN  /\ Settings(auto_levels_var, display_min_var, display_max_var, brightness_var,
                       opacity_var, zoom_var, view, quality, fast, backup,
                       use_gpu_var, full_res_view_var)
           /\ RebuildPreviewCache(quality)
    /\ UNCHANGED <<pc, shown>>
    /\ displayFrame
    /\ Render(TRUE)

\* _on_gpu_toggle: the check box has flipped use_gpu_var; without numpy and
\* cv2 an information box is shown and the box is unchecked again.
OnGpuToggle ==
    /\ LET gpu == ~use_gpu_var
       IN  IF gpu /\ ~gpu_available
           THEN /\ shown' = <<"GPU preview unavailable",
                              "GPU preview requires numpy + opencv-python. Install them in the venv and restart the app.">>
                /\ pc' = "gpu_info"
                /\ Settings(auto_levels_var, display_min_var, display_max_var, brightness_var,
                            opacity_var, zoom_var, view, preview_quality_var, fast_preview_var,
                            preview_quality_backup, FALSE, full_res_view_var)
           ELSE /\ UNCHANGED <<pc, shown>>
                /\ Settings(auto_levels_var, display_min_var, display_max_var, brightness_var,
                            opacity_var, zoom_var, view, preview_quality_var, fast_preview_var,
                            preview_quality_backup, gpu, full_res_view_var)
    /\ UNCHANGED <<preview_channels, display_channels>>
    /\ displayFrame
    /\ IF ~use_gpu_var /\ ~gpu_available THEN UNCHANGED rVars ELSE Render(FALSE)

\* _on_fullres_toggle: the check box has flipped full_res_view_var.
OnFullresToggle ==
    /\ Settings(auto_levels_var, display_min_var, display_max_var, brightness_var,
                opacity_var, zoom_var, view, preview_quality_var, fast_preview_var,
                preview_quality_backup, use_gpu_var, ~full_res_view_var)
    /\ UNCHANGED <<preview_channels, display_channels, pc, shown>>
    /\ displayFrame
    /\ Render(FALSE)

\* The loads made while the display controls are exercised.
LoadExport == \E paths \in {<<<<"a.tif">>, PathB>>, <<PathA>>} : LoadImages(paths)

\* The handlers of the export: load, rotate, save, and the display controls.
NextExport ==
    \/ LoadExport
    \/ RotateActive
    \/ SaveBegin
    \/ SavePrompt
    \/ DismissMessage
    \/ OnLevelsToggle
    \/ OnDisplayAdjustment
    \/ OnOpacity
    \/ OnZoomSlider
    \/ ZoomIn
    \/ ZoomOut
    \/ ZoomFit
    \/ OnMousewheel
    \/ OnScroll
    \/ DoPan
    \/ OnPreviewQualityChange
    \/ OnFastPreviewToggle
    \/ OnGpuToggle
    \/ OnFullresToggle

----------------------------------------------------------------------------
\* The handlers with the canvas looked at: the renders and the render timer.

\* _render_final: the timer fires (Tk has dropped it), _render_job is
\* forgotten and the view is rendered for good.  Timers fire under an open
\* message box or dialog as well.
RenderFinal ==
    /\ canvas.kind # "parked"
    /\ \E id \in timers : timers' = timers \ {id}
    /\ render_job' = 0
    /\ UNCHANGED aVars
    /\ UNCHANGED notA
    /\ \E accel \in AccelChoices :
        \E outcome \in {RenderOutcome(FALSE, FALSE, accel)} : Rendered(outcome)

\* The loads made while the canvas is looked at: two single-band files or
\* two RGB files.
LoadRender ==
    \E paths \in {<<<<"a.tif">>, PathB>>, <<PathRgb, PathRgb>>} : LoadImages(paths)

NextRender ==
    \/ LoadRender
    \/ MoveActive
    \/ OnInterpChange
    \/ OnOpacity
    \/ ZoomIn
    \/ OnLevelsToggle
    \/ OnDisplayAdjustment
    \/ OnPreviewQualityChange
    \/ OnFastPreviewToggle
    \/ OnGpuToggle
    \/ OnFullresToggle
    \/ RenderFinal

----------------------------------------------------------------------------
\* The helper functions of app.py and the display mapping of core.py, each
\* applied to one drawn call.
\*
\* A float is kept as a fraction <<numerator, denominator>> with a positive
\* denominator; a text is a sequence of characters.

Q(n, d) == <<n, d>>
LeQ(a, b) == a[1] * b[2] <= b[1] * a[2]
EqQ(a, b) == a[1] * b[2] = b[1] * a[2]
MinQ(a, b) == IF LeQ(b, a) THEN b ELSE a
MaxQ(a, b) == IF LeQ(a, b) THEN b ELSE a

\* compute_fit_scale whose result is not floored at 0.05.
ComputeFitScaleNoFloor(image_size, canvas_size) ==
    IF image_size[1] <= 0 \/ image_size[2] <= 0 THEN Q(1, 1)
    ELSE IF canvas_size[1] <= 0 \/ canvas_size[2] <= 0 THEN Q(1, 1)
    ELSE MinQ(MinQ(Q(canvas_size[1], image_size[1]), Q(canvas_size[2], image_size[2])), Q(1, 1))

\* compute_fit_scale(image_size, canvas_size)
ComputeFitScale(image_size, canvas_size) ==
    IF image_size[1] <= 0 \/ image_size[2] <= 0 THEN Q(1, 1)
    ELSE IF canvas_size[1] <= 0 \/ canvas_size[2] <= 0 THEN Q(1, 1)
    ELSE LET scale == MinQ(MinQ(Q(canvas_size[1], image_size[1]),
                                Q(canvas_size[2], image_size[2])), Q(1, 1))
         IN  MaxQ(scale, Q(5, 100))

\* clamp_scroll_fraction without the upper end of the range.
ClampScrollFractionNoUpper(value, scroll_w, canvas_w) ==
    IF scroll_w <= 0 THEN Q(0, 1) ELSE MaxQ(value, Q(0, 1))

\* clamp_scroll_fraction(value, scroll_w, canvas_w)
ClampScrollFraction(value, scroll_w, canvas_w) ==
    IF scroll_w <= 0 THEN Q(0, 1)
    ELSE LET max_start == MaxQ(Q(0, 1), Q(scroll_w - canvas_w, scroll_w))
         IN  MinQ(MaxQ(value, Q(0, 1)), max_start)

RECURSIVE Gcd(_, _)
Gcd(a, b) == IF b = 0 THEN a ELSE Gcd(b, a % b)

\* The fraction n/d in lowest terms; d is positive.
Reduce(n, d) == LET g == Gcd(Abs(n), d) IN Q(n \div g, d \div g)

\* Arithmetic of the fractions; denominators are positive.
AddQ(a, b) == Reduce(a[1] * b[2] + b[1] * a[2], a[2] * b[2])
SubQ(a, b) == Reduce(a[1] * b[2] - b[1] * a[2], a[2] * b[2])
MulQ(a, b) == Reduce(a[1] * b[1], a[2] * b[2])
DivQ(a, b) == Reduce(a[1] * b[2], a[2] * b[1])
LtQ(a, b) == ~LeQ(b, a)

\* int(x) of a float: the fraction is cut off.
IntQ(a) == IF a[1] >= 0 THEN a[1] \div a[2] ELSE -((-a[1]) \div a[2])

\* math.ceil(x)
CeilQ(a) == -((-a[1]) \div a[2])

\* _viewport_geometry when nothing is visible.
NoGeometry ==
    [none |-> TRUE, disp_w |-> 0, disp_h |-> 0, offset_x |-> 0, offset_y |-> 0,
     vis_x0 |-> Q(0, 1), vis_y0 |-> Q(0, 1), vis_x1 |-> Q(0, 1), vis_y1 |-> Q(0, 1)]

\* _viewport_geometry that does not cut the window at the right and lower
\* edge of the image.
ViewportGeometryUnclipped(base_size, scale, canvas_w, canvas_h, scroll_w, scroll_h, x0, y0) ==
    LET disp_w == Max2(IntQ(MulQ(Q(base_size[1], 1), scale)), 1)
        disp_h == Max2(IntQ(MulQ(Q(base_size[2], 1), scale)), 1)
        offset_x == Max2((scroll_w - disp_w) \div 2, 0)
        offset_y == Max2((scroll_h - disp_h) \div 2, 0)
        img_x0 == SubQ(x0, Q(offset_x, 1))
        img_y0 == SubQ(y0, Q(offset_y, 1))
        img_x1 == AddQ(img_x0, Q(canvas_w, 1))
        img_y1 == AddQ(img_y0, Q(canvas_h, 1))
        vis_x0 == MaxQ(Q(0, 1), img_x0)
        vis_y0 == MaxQ(Q(0, 1), img_y0)
    IN  IF LeQ(img_x1, vis_x0) \/ LeQ(img_y1, vis_y0) THEN NoGeometry
        ELSE [none |-> FALSE, disp_w |-> disp_w, disp_h |-> disp_h,
              offset_x |-> offset_x, offset_y |-> offset_y,
              vis_x0 |-> vis_x0, vis_y0 |-> vis_y0, vis_x1 |-> img_x1, vis_y1 |-> img_y1]

\* ManualChannelAlignerApp._viewport_geometry
ViewportGeometry(base_size, scale, canvas_w, canvas_h, scroll_w, scroll_h, x0, y0) ==
    LET disp_w == Max2(IntQ(MulQ(Q(base_size[1], 1), scale)), 1)
        disp_h == Max2(IntQ(MulQ(Q(base_size[2], 1), scale)), 1)
        offset_x == Max2((scroll_w - disp_w) \div 2, 0)
        offset_y == Max2((scroll_h - disp_h) \div 2, 0)
        img_x0 == SubQ(x0, Q(offset_x, 1))
        img_y0 == SubQ(y0, Q(offset_y, 1))
        img_x1 == AddQ(img_x0, Q(canvas_w, 1))
        img_y1 == AddQ(img_y0, Q(canvas_h, 1))
        vis_x0 == MaxQ(Q(0, 1), img_x0)
        vis_y0 == MaxQ(Q(0, 1), img_y0)
        vis_x1 == MinQ(Q(disp_w, 1), img_x1)
        vis_y1 == MinQ(Q(disp_h, 1), img_y1)
    IN  IF LeQ(vis_x1, vis_x0) \/ LeQ(vis_y1, vis_y0) THEN NoGeometry
        ELSE [none |-> FALSE, disp_w |-> disp_w, disp_h |-> disp_h,
              offset_x |-> offset_x, offset_y |-> offset_y,
              vis_x0 |-> vis_x0, vis_y0 |-> vis_y0, vis_x1 |-> vis_x1, vis_y1 |-> vis_y1]

\* The calls of _viewport_geometry drawn: image sizes, scales, canvas and
\* scroll sizes, and the scroll positions x0 and y0.
GeoSizes == {<<4, 2>>, <<100, 50>>}
GeoScales == {Q(1, 10), Q(1, 1), Q(5, 2)}
GeoCanvasW == {0, 3, 100}
GeoCanvasH == {3, 100}
GeoScrollW == {1, 100, 250}
GeoScrollH == {3, 125}
GeoX0 == {Q(-1, 1), Q(0, 1), Q(1, 2), Q(75, 1), Q(300, 1)}
GeoY0 == {Q(0, 1), Q(5, 2), Q(60, 1)}

\* math.sqrt of a fraction whose numerator and denominator are squares.
SqrtQ(a) ==
    LET r == Reduce(a[1], a[2])
    IN  Q(CHOOSE n \in 0 .. r[1] : n * n = r[1], CHOOSE d \in 1 .. r[2] : d * d = r[2])

\* ManualChannelAlignerApp._compute_preview_scale
ComputePreviewScale(size, preview_quality) ==
    IF size[1] <= 0 \/ size[2] <= 0 THEN Q(1, 1)
    ELSE LET max_dim == Max2(size[1], size[2])
             scale_dim == MinQ(Q(1, 1), Q(PreviewMaxDim, max_dim))
             max_pixels == PreviewTargetPixels(preview_quality)
             scale_area == IF max_pixels >= size[1] * size[2] THEN Q(1, 1)
                           ELSE SqrtQ(Q(max_pixels, size[1] * size[2]))
             scale == MinQ(MinQ(scale_dim, scale_area), Q(1, 1))
         IN  MaxQ(scale, Q(5, 100))

\* The size of the images _build_preview_channels returns.
PreviewSize(size, preview_quality) ==
    LET preview_scale == ComputePreviewScale(size, preview_quality)
    IN  IF LeQ(Q(999, 1000), preview_scale) THEN size
        ELSE <<Max2(IntQ(MulQ(Q(size[1], 1), preview_scale)), 1),
               Max2(IntQ(MulQ(Q(size[2], 1), preview_scale)), 1)>>

\* The scroll fraction of one axis a render uses: the centre when
\* _needs_center_view is set, else the clamped position of the canvas.
ScrollFraction(needs_center, position, scroll, canvas_size) ==
    IF needs_center
    THEN IF scroll > canvas_size THEN Reduce(scroll - canvas_size, 2 * scroll) ELSE Q(0, 1)
    ELSE ClampScrollFraction(position, scroll, canvas_size)

\* The source rectangle of a render whose upper bounds are not cut at the
\* image size.
SourceCropUncut(g, scale, size) ==
    [x0 |-> IntQ(DivQ(g.vis_x0, scale)),
     y0 |-> IntQ(DivQ(g.vis_y0, scale)),
     x1 |-> CeilQ(DivQ(g.vis_x1, scale)),
     y1 |-> CeilQ(DivQ(g.vis_y1, scale))]

\* base_x0, base_y0, base_x1, base_y1 of _render_viewport and of
\* _render_fullres_view.
SourceCrop(g, scale, size) ==
    [x0 |-> IntQ(DivQ(g.vis_x0, scale)),
     y0 |-> IntQ(DivQ(g.vis_y0, scale)),
     x1 |-> Min2(CeilQ(DivQ(g.vis_x1, scale)), size[1]),
     y1 |-> Min2(CeilQ(DivQ(g.vis_y1, scale)), size[2])]

\* The geometry of one render of an image of size base_size: _render_view
\* (lines 1492-1524 with _render_viewport) takes the size of the overlay,
\* _render_fullres_view (lines 1585-1621, 1670-1675) the size of the first
\* channel.
ViewGeometry(base_size, zoom, canvas_w, canvas_h, needs_center, xview, yview) ==
    LET fit_scale == ComputeFitScale(base_size, <<canvas_w, canvas_h>>)
        scale == MaxQ(MulQ(fit_scale, Q(zoom, 100)), Q(5, 100))
        disp_w == Max2(IntQ(MulQ(Q(base_size[1], 1), scale)), 1)
        disp_h == Max2(IntQ(MulQ(Q(base_size[2], 1), scale)), 1)
        scroll_w == Max2(canvas_w, disp_w)
        scroll_h == Max2(canvas_h, disp_h)
        x_fraction == ScrollFraction(needs_center, xview, scroll_w, canvas_w)
        y_fraction == ScrollFraction(needs_center, yview, scroll_h, canvas_h)
        x0 == MulQ(x_fraction, Q(scroll_w, 1))
        y0 == MulQ(y_fraction, Q(scroll_h, 1))
        g == ViewportGeometry(base_size, scale, canvas_w, canvas_h, scroll_w, scroll_h, x0, y0)
    IN  [base_size |-> base_size, scale |-> scale, disp_w |-> disp_w, disp_h |-> disp_h,
         scroll_w |-> scroll_w, scroll_h |-> scroll_h,
         x_fraction |-> x_fraction, y_fraction |-> y_fraction,
         geometry |-> g,
         base |-> IF g.none THEN [x0 |-> 0, y0 |-> 0, x1 |-> 0, y1 |-> 0]
                  ELSE SourceCrop(g, scale, base_size),
         pos_x |-> IF g.none THEN IntQ(x0) ELSE IntQ(AddQ(Q(g.offset_x, 1), g.vis_x0)),
         pos_y |-> IF g.none THEN IntQ(y0) ELSE IntQ(AddQ(Q(g.offset_y, 1), g.vis_y0))]

\* A render path that has not run.
NotRendered == [base_size |-> <<0, 0>>]

\* The renders drawn: image sizes, preview qualities, zoom factors, the
\* sizes of the canvas, and the scroll position the canvas reports unless
\* the view is to be centred.
ViewSizes == {<<4, 2>>, <<100, 50>>, <<3200, 100>>, <<1600, 1250>>}
ViewQualities == {5, 20}
ViewZooms == {10, 100, 250}
ViewCanvases == {<<1, 1>>, <<300, 200>>, <<2000, 1500>>}
ViewScrolls ==
    {<<TRUE, Q(0, 1), Q(0, 1)>>}
        \cup ({FALSE} \X {Q(0, 1), Q(1, 5), Q(1, 2), Q(1, 1)} \X {Q(0, 1), Q(1, 2)})

\* str.strip(chars): the text without the leading and trailing characters
\* that are in chars.
Strip(text, chars) ==
    LET keep == {k \in DOMAIN text : text[k] \notin chars}
    IN  IF keep = {} THEN <<>>
        ELSE SubSeq(text, CHOOSE k \in keep : \A j \in keep : k <= j,
                          CHOOSE k \in keep : \A j \in keep : k >= j)

Whitespace == {" ", "\t", "\n", "\r"}

\* The characters the second alternative of the pattern of parse_drop_files
\* leaves out: in the raw string r"[^\\s]" the class holds the backslash and
\* the letter s.
TokenStops == {"\\", "s"}

\* re.findall(r"{[^}]+}|[^\\s]+", data) from position i on: a "{", one or
\* more characters other than "}", and a "}"; or else the longest run of
\* characters outside TokenStops; a character that starts neither is skipped.
RECURSIVE FindAll(_, _)
FindAll(data, i) ==
    IF i > Len(data) THEN <<>>
    ELSE LET closes == {j \in i + 1 .. Len(data) : data[j] = "}"}
             close == IF closes = {} THEN 0 ELSE CHOOSE j \in closes : \A k \in closes : j <= k
             stops == {j \in i .. Len(data) : data[j] \in TokenStops}
             stop == IF stops = {} THEN Len(data) + 1
                     ELSE CHOOSE j \in stops : \A k \in stops : j <= k
         IN  IF data[i] = "{" /\ close >= i + 2
             THEN <<SubSeq(data, i, close)>> \o FindAll(data, close + 1)
             ELSE IF data[i] \notin TokenStops
             THEN <<SubSeq(data, i, stop - 1)>> \o FindAll(data, stop)
             ELSE FindAll(data, i + 1)

\* normalize_drop_path(value): the path of a file:// URL (urlparse drops the
\* scheme and the host), any other text as it is.
NormalizeDropPath(value) ==
    IF Len(value) >= 7 /\ SubSeq(value, 1, 7) = <<"f", "i", "l", "e", ":", "/", "/">>
    THEN LET slashes == {j \in 8 .. Len(value) : value[j] = "/"}
         IN  IF slashes = {} THEN <<>>
             ELSE SubSeq(value, CHOOSE j \in slashes : \A k \in slashes : j <= k, Len(value))
    ELSE value

\* parse_drop_files(data)
ParseDropFiles(data) ==
    IF data = <<>> THEN <<>>
    ELSE LET tokens == FindAll(data, 1)
             paths == [k \in DOMAIN tokens |->
                        NormalizeDropPath(Strip(Strip(tokens[k], Whitespace), {"{", "}"}))]
         IN  SelectSeq(paths, LAMBDA p : p # <<>>)

\* Longest drop text drawn.
MaxDrop == 5

\* The sizes, fractions, images, ranges and characters the calls are drawn from.
FitSizes == {-1, 0, 1, 100, 200, 400}
ScrollFractions == {Q(-1, 2), Q(0, 1), Q(1, 5), Q(1, 2), Q(4, 5), Q(3, 2)}
ScrollSizes == {-1, 0, 100, 200, 300}
CanvasSizes == {0, 100, 150, 400}
GrayImages ==
    {MkImage(1, 1, <<[p \in Grid(1, 1) |-> v]>>) : v \in 0 .. 255}
        \cup {MkImage(2, 1, <<[p \in Grid(2, 1) |-> IF p[1] = 0 THEN a ELSE b]>>) :
                a \in {0, 40, 128, 255}, b \in {0, 40, 128, 255}}
LevelRanges == {NoRange, <<0, 255>>, <<40, 128>>, <<64, 64>>, <<255, 0>>}
DropChars == {"a", "s", " ", "{", "}", "\\"}

UParked == u_fn = "parked" /\ u_args = <<>> /\ u_called = FALSE /\ u_result = <<>>

UInit ==
    /\ u_called = FALSE
    /\ \/ /\ u_fn = "_render_view"
          /\ u_args \in ViewSizes \X ViewQualities \X ViewZooms \X ViewCanvases \X ViewScrolls
       \/ u_fn = "compute_fit_scale" /\ u_args \in (FitSizes \X FitSizes) \X (FitSizes \X FitSizes)
       \/ u_fn = "clamp_scroll_fraction" /\ u_args \in ScrollFractions \X ScrollSizes \X CanvasSizes
       \/ u_fn = "to_display_gray" /\ u_args \in GrayImages \X LevelRanges
       \/ u_fn = "parse_drop_files" /\ u_args \in UNION {[1 .. n -> DropChars] : n \in 0 .. MaxDrop}
       \/ u_fn = "_viewport_geometry"
            /\ u_args \in GeoSizes \X GeoScales \X GeoCanvasW \X GeoCanvasH
                            \X GeoScrollW \X GeoScrollH \X GeoX0 \X GeoY0
    /\ u_result = IF u_fn = "_render_view"
                  THEN [preview |-> NotRendered, fullres |-> NotRendered]
                  ELSE <<>>

\* compute_fit_scale(image_size, canvas_size)
UFitScale ==
    /\ u_fn = "compute_fit_scale" /\ ~u_called
    /\ u_called' = TRUE
    /\ u_result' = ComputeFitScale(u_args[1], u_args[2])
    /\ UNCHANGED <<u_fn, u_args>>
    /\ UNCHANGED notU

\* clamp_scroll_fraction, applied once and applied to its own result.
UClampScroll ==
    /\ u_fn = "clamp_scroll_fraction" /\ ~u_called
    /\ u_called' = TRUE
    /\ LET once == ClampScrollFraction(u_args[1], u_args[2], u_args[3])
       IN  u_result' = [once |-> once,
                        twice |-> ClampScrollFraction(once, u_args[2], u_args[3])]
    /\ UNCHANGED <<u_fn, u_args>>
    /\ UNCHANGED notU

\* to_display_gray(image, display_range)
UDisplayGray ==
    /\ u_fn = "to_display_gray" /\ ~u_called
    /\ u_called' = TRUE
    /\ u_result' = ToDisplayGray(u_args[1], u_args[2])
    /\ UNCHANGED <<u_fn, u_args>>
    /\ UNCHANGED notU

\* parse_drop_files(data)
UParseDrop ==
    /\ u_fn = "parse_drop_files" /\ ~u_called
    /\ u_called' = TRUE
    /\ u_result' = ParseDropFiles(u_args)
    /\ UNCHANGED <<u_fn, u_args>>
    /\ UNCHANGED notU

\* _viewport_geometry(base_size, scale, canvas_w, canvas_h, scroll_w, scroll_h, x0, y0)
UViewportGeometry ==
    /\ u_fn = "_viewport_geometry" /\ ~u_called
    /\ u_called' = TRUE
    /\ u_result' = ViewportGeometry(u_args[1], u_args[2], u_args[3], u_args[4],
                                    u_args[5], u_args[6], u_args[7], u_args[8])
    /\ UNCHANGED <<u_fn, u_args>>
    /\ UNCHANGED notU

\* _render_view without 'Full-res view': the geometry of the overlay, whose
\* size is that of the preview channels.
URenderView ==
    /\ u_fn = "_render_view" /\ u_result.preview = NotRendered
    /\ u_called' = TRUE
    /\ u_result' = [u_result EXCEPT !.preview =
            ViewGeometry(PreviewSize(u_args[1], u_args[2]), u_args[3],
                         u_args[4][1], u_args[4][2],
                         u_args[5][1], u_args[5][2], u_args[5][3])]
    /\ UNCHANGED <<u_fn, u_args>>
    /\ UNCHANGED notU

\* _render_view with 'Full-res view': _render_fullres_view.
URenderFullresView ==
    /\ u_fn = "_render_view" /\ u_result.fullres = NotRendered
    /\ u_called' = TRUE
    /\ u_result' = [u_result EXCEPT !.fullres =
            ViewGeometry(u_args[1], u_args[3], u_args[4][1], u_args[4][2],
                         u_args[5][1], u_args[5][2], u_args[5][3])]
    /\ UNCHANGED <<u_fn, u_args>>
    /\ UNCHANGED notU

UNext ==
    \/ URenderView
    \/ URenderFullresView
    \/ UFitScale
    \/ UClampScroll
    \/ UDisplayGray
    \/ UParseDrop
    \/ UViewportGeometry

----------------------------------------------------------------------------
\* Specifications.  Each runs one part of the model and parks the others.

----------------------------------------------------------------------------
\* The scroll position of the canvas.  The handlers are followed as far as
\* they touch _needs_center_view, the scroll position and what the geometry
\* of a render depends on: the size and the bands of the loaded channels,
\* the levels mode, the preview quality, the zoom, the size of the canvas
\* and the render path.

\* Zoom steps above 100 % the zoom buttons may take here.
MaxViewZoomSteps == 1

\* No channels are loaded.
NoChannels == [size |-> <<0, 0>>, bands |-> 0]

\* The stacks that are loaded: two single-band files of 1600 x 1250, two of
\* 100 x 50, and two RGB files of 100 x 50.
ViewStacks ==
    {[size |-> <<1600, 1250>>, bands |-> 1],
     [size |-> <<100, 50>>, bands |-> 1],
     [size |-> <<100, 50>>, bands |-> 3]}

\* The sizes of the canvas and the positions the scroll bars are dragged to.
WinfoSizes == {<<300, 200>>, <<60, 40>>}
DragFractions == {Q(0, 1), Q(1, 1)}

\* The fields as a record.
ViewNow ==
    [channels |-> v_channels, display |-> v_display, auto |-> v_auto,
     quality |-> v_quality, fast |-> v_fast, backup |-> v_backup, full |-> v_full,
     zoom |-> v_zoom, winfo |-> v_winfo, center |-> v_center, scroll |-> v_scroll,
     job |-> v_job]

\* _rebuild_display_cache raises in auto mode on channels of several bands.
DisplayRaises(s) == s.auto /\ s.channels.bands > 1

\* The size of the image a render lays out: the overlay, which has the size
\* of the preview channels, or channels[0] in the full-resolution path.
LaidOut(s) == IF s.full THEN s.channels.size ELSE PreviewSize(s.channels.size, s.quality)

\* The geometry of a render in the state s.
Layout(s) ==
    ViewGeometry(LaidOut(s), s.zoom, s.winfo[1], s.winfo[2], s.center, s.scroll[1], s.scroll[2])

\* _render_view(draft) in the state s: what it leaves and whether it got to
\* draw.  Without channels the empty state is drawn.  The full-resolution
\* path raises in auto mode on channels of several bands, and it returns
\* after clearing the canvas when _viewport_geometry finds nothing.  The
\* preview path first rebuilds the display images when there are none, which
\* may raise.  A render that draws moves the canvas to the fractions it used
\* and clears _needs_center_view.
RenderEnds(s) ==
    IF s.channels = NoChannels THEN [state |-> s, drawn |-> FALSE]
    ELSE IF DisplayRaises(s) /\ (s.full \/ ~s.display) THEN [state |-> s, drawn |-> FALSE]
    ELSE CHOOSE outcome \in
            {IF s.full /\ g.geometry.none
             THEN [state |-> [s EXCEPT !.display = s.display \/ ~s.full], drawn |-> FALSE]
             ELSE [state |-> [s EXCEPT !.display = s.display \/ ~s.full,
                                       !.center = FALSE,
                                       !.scroll = <<g.x_fraction, g.y_fraction>>],
                   drawn |-> TRUE] : g \in {Layout(s)}} : TRUE

\* _rebuild_display_cache in the state s, then the rest of the handler.
Rebuilt(s, rest) ==
    IF s.channels = NoChannels THEN rest
    ELSE IF DisplayRaises(s) THEN [state |-> [s EXCEPT !.display = FALSE], drawn |-> FALSE]
    ELSE rest

\* The fields after a handler that ended as the outcome says; a render that
\* drew holds a new PhotoImage.
ViewEnds(outcome) ==
    /\ v_channels' = outcome.state.channels
    /\ v_display' = outcome.state.display
    /\ v_auto' = outcome.state.auto
    /\ v_quality' = outcome.state.quality
    /\ v_fast' = outcome.state.fast
    /\ v_backup' = outcome.state.backup
    /\ v_full' = outcome.state.full
    /\ v_zoom' = outcome.state.zoom
    /\ v_winfo' = outcome.state.winfo
    /\ v_center' = outcome.state.center
    /\ v_scroll' = <<Reduce(outcome.state.scroll[1][1], outcome.state.scroll[1][2]),
                     Reduce(outcome.state.scroll[2][1], outcome.state.scroll[2][2])>>
    /\ v_job' = outcome.state.job
    /\ v_photo' = IF outcome.drawn THEN (IF v_photo = 1 THEN 2 ELSE 1) ELSE v_photo
    /\ UNCHANGED notV

\* _schedule_render in the state s: the draft render, then the timer.
Scheduled(s) == [RenderEnds(s) EXCEPT !.state.job = TRUE]

\* load_images of a stack of two channels: _rebuild_display_cache, then
\* _needs_center_view = True and _refresh_display.
Loaded(s) ==
    IF DisplayRaises(s)
    THEN [state |-> [s EXCEPT !.display = FALSE], drawn |-> FALSE]
    ELSE RenderEnds([s EXCEPT !.display = TRUE, !.center = TRUE])

VLoad ==
    \E stack \in ViewStacks :
        \E outcome \in {Loaded([ViewNow EXCEPT !.channels = stack])} : ViewEnds(outcome)

\* _rebuild_preview_cache in the state s, then _render_view(draft=False).
PreviewRebuilt(s) ==
    IF s.channels = NoChannels THEN RenderEnds(s)
    ELSE Rebuilt(s, RenderEnds([s EXCEPT !.display = TRUE, !.center = TRUE]))

\* _on_preview_quality_change; the slider is put back to 2.0 MP.
QualityChanged(s) == IF s.fast THEN [state |-> s, drawn |-> FALSE] ELSE PreviewRebuilt(s)

VPreviewQualityChange ==
    \E value \in {20} :
        \E outcome \in {QualityChanged([ViewNow EXCEPT !.quality = value])} : ViewEnds(outcome)

\* _on_fast_preview_toggle
VFastPreviewToggle ==
    \E outcome \in
        {PreviewRebuilt(IF ~v_fast
                        THEN [ViewNow EXCEPT !.fast = TRUE, !.backup = v_quality, !.quality = 5]
                        ELSE [ViewNow EXCEPT !.fast = FALSE,
                                  !.quality = IF v_backup # 0 THEN v_backup ELSE v_quality])} :
        ViewEnds(outcome)

\* _on_levels_toggle: _rebuild_display_cache, then _render_view(draft=False).
LevelsToggled(s) == Rebuilt(s, RenderEnds([s EXCEPT !.display = s.channels # NoChannels]))

VLevelsToggle ==
    \E outcome \in {LevelsToggled([ViewNow EXCEPT !.auto = ~v_auto])} : ViewEnds(outcome)

\* _on_fullres_toggle
VFullresToggle ==
    \E outcome \in {RenderEnds([ViewNow EXCEPT !.full = ~v_full])} : ViewEnds(outcome)

\* _zoom_in and _zoom_out
VZoom ==
    \E step \in {ZoomStep, -ZoomStep} :
        /\ v_zoom + step \in 100 .. 100 + MaxViewZoomSteps * ZoomStep
        /\ \E outcome \in {Scheduled([ViewNow EXCEPT !.zoom = ClampZoom(v_zoom + step)])} :
                ViewEnds(outcome)

\* _zoom_fit
VZoomFit ==
    \E outcome \in {Scheduled([ViewNow EXCEPT !.zoom = ClampZoom(100), !.center = TRUE])} :
        ViewEnds(outcome)

\* _on_scroll: the scroll bar is dragged to a fraction.
VScroll ==
    \E axis \in {1, 2}, fraction \in DragFractions :
        \E outcome \in {Scheduled([ViewNow EXCEPT !.scroll[axis] = fraction])} :
            ViewEnds(outcome)

\* <Configure> of the canvas: _refresh_display at the new size.
VConfigure ==
    \E size \in WinfoSizes :
        \E outcome \in {RenderEnds([ViewNow EXCEPT !.winfo = size])} : ViewEnds(outcome)

\* _render_final, when the timer fires.
VRenderFinal ==
    /\ v_job
    /\ \E outcome \in {RenderEnds([ViewNow EXCEPT !.job = FALSE])} : ViewEnds(outcome)

VParked ==
    /\ v_channels = NoChannels /\ v_display = FALSE /\ v_auto = FALSE /\ v_quality = 0
    /\ v_fast = FALSE /\ v_backup = 0 /\ v_full = FALSE /\ v_zoom = 0
    /\ v_winfo = <<0, 0>> /\ v_center = FALSE /\ v_scroll = <<Q(0, 1), Q(0, 1)>>
    /\ v_job = FALSE /\ v_photo = 0

\* ManualChannelAlignerApp.__init__ without paths
VInit ==
    /\ v_channels = NoChannels /\ v_display = FALSE /\ v_auto = TRUE /\ v_quality = 20
    /\ v_fast = FALSE /\ v_backup = 0 /\ v_full = FALSE /\ v_zoom = 100
    /\ v_winfo = <<300, 200>> /\ v_center = FALSE /\ v_scroll = <<Q(0, 1), Q(0, 1)>>
    /\ v_job = FALSE /\ v_photo = 0

NextView ==
    \/ VLoad
    \/ VPreviewQualityChange
    \/ VFastPreviewToggle
    \/ VLevelsToggle
    \/ VFullresToggle
    \/ VZoom
    \/ VZoomFit
    \/ VScroll
    \/ VConfigure
    \/ VRenderFinal

InitView == TParked /\ GParked /\ LParked /\ AParked /\ UParked /\ RParked /\ VInit

SpecView == InitView /\ [][NextView]_vars

InitTransform == VParked /\ GParked /\ LParked /\ AParked /\ UParked /\ RParked /\ TInit
SpecTransform == InitTransform /\ [][TNext]_vars

InitTag == VParked /\ TParked /\ LParked /\ AParked /\ UParked /\ RParked /\ GInit
SpecTag == InitTag /\ [][GNext]_vars

InitLoad == VParked /\ TParked /\ GParked /\ AParked /\ UParked /\ RParked /\ LInit
SpecLoad == InitLoad /\ [][LNext]_vars

\* The session without the display handlers: the program starts without paths.
Init == VParked /\ TParked /\ GParked /\ LParked /\ UParked /\ RParked /\ AInit({FALSE})
Spec == Init /\ [][Next]_vars

\* The export under the display controls, with and without numpy and cv2.
InitExport == VParked /\ TParked /\ GParked /\ LParked /\ UParked /\ RParked /\ AInit(BOOLEAN)
SpecExport == InitExport /\ [][NextExport]_vars

\* The handlers with the canvas looked at; numpy and cv2 are installed.
InitRender == VParked /\ TParked /\ GParked /\ LParked /\ UParked /\ AInit({TRUE}) /\ RInit
SpecRender == InitRender /\ [][NextRender]_vars

\* The same with the event loop of Tk at work: a timer that stays armed
\* fires once its 120 ms have passed.
SpecRenderFair == SpecRender /\ WF_vars(RenderFinal)

\* The helper functions, each on every drawn call.
InitUtil == VParked /\ TParked /\ GParked /\ LParked /\ AParked /\ RParked /\ UInit
SpecUtil == InitUtil /\ [][UNext]_vars

----------------------------------------------------------------------------
\* Claims about the transform engine (checked under SpecTransform).

\* C1: crop-consistency.  For every state, rectangle and filter, resampling
\* the rectangle with affine_matrix_for_crop (what _transform_crop does)
\* gives the same pixels as cropping the rectangle out of apply_transform.
C1_CropConsistency ==
    t_crop # NoImage =>
        t_crop = Crop(t_full, t_rect[1], t_rect[2], t_rect[3], t_rect[4])

\* C3: identity transform.  apply_transform with dx = dy = angle_deg = 0
\* returns an image of the same size with the same pixels, for every filter.
C3_IdentityTransform ==
    (t_full # NoImage /\ t_state = IdentityState) =>
        /\ t_full.w = t_image.w /\ t_full.h = t_image.h
        /\ \A p \in Grid(t_image.w, t_image.h) : t_full.bands[1][p] = t_image.bands[1][p]

\* A non-blank image went through apply_transform with the identity state.
C3_Witness ==
    /\ t_full # NoImage
    /\ t_state = IdentityState
    /\ \E p \in Grid(t_image.w, t_image.h) : t_image.bands[1][p] = 255

\* C4: translation only.  With angle_deg = 0, nearest resampling and a
\* whole-pixel (dx, dy), the output at (x, y) is the input at (x - dx, y - dy)
\* when that position is inside the image and 0 otherwise.
C4_TranslationOnly ==
    (t_full # NoImage /\ t_state.angle_deg = 0 /\ t_resample = NEAREST) =>
        \A p \in Grid(t_image.w, t_image.h) :
            LET q == <<p[1] - (t_state.dx \div 2), p[2] - (t_state.dy \div 2)>>
            IN  t_full.bands[1][p] =
                    IF q \in Grid(t_image.w, t_image.h) THEN t_image.bands[1][q] ELSE 0

\* A single bright pixel was moved by a translation in both axes: it shows
\* at (x + dx, y + dy) and its old position is 0.
C4_Witness ==
    /\ t_full # NoImage /\ t_state.angle_deg = 0 /\ t_resample = NEAREST
    /\ t_state.dx # 0 /\ t_state.dy # 0
    /\ \E p \in Grid(t_image.w, t_image.h) :
        LET q == <<p[1] + (t_state.dx \div 2), p[2] + (t_state.dy \div 2)>>
        IN  /\ t_image.bands[1][p] = 255
            /\ q \in Grid(t_image.w, t_image.h)
            /\ t_full.bands[1][q] = 255
            /\ t_full.bands[1][p] = 0

----------------------------------------------------------------------------
\* Claims about the alignment tag (checked under SpecTag).

\* How often the marker occurs in a text, ignoring case.
MarkerCount(text) == Cardinality(Occurrences(Lower(TagText), Lower(text)))

----------------------------------------------------------------------------
\* Claims about the loader (checked under SpecLoad).

\* C7: load channel count.  Given several paths the loader returns one
\* channel per file; given one path it returns one channel per frame when the
\* file has more than one frame, otherwise one per band when the image has
\* more than one band, otherwise exactly one; an empty list raises.  (It
\* returns whenever every file opens and the sizes agree.)
C7_LoadChannelCount ==
    l_result # NotLoaded =>
        /\ l_paths = <<>> => ~l_result.ok
        /\ l_result.ok =>
            LET n == Len(l_result.channels)
                image == SourceFiles[Abspath(l_paths[1])]
            IN  IF Len(l_paths) > 1 THEN n = Len(l_paths)
                ELSE IF Len(image.frames) > 1 THEN n = Len(image.frames)
                ELSE IF Len(image.frames[1].bands) > 1 THEN n = Len(image.frames[1].bands)
                ELSE n = 1
        /\ (/\ l_paths # <<>>
            /\ \A i \in DOMAIN l_paths : CanOpen(DOMAIN SourceFiles, l_paths[i])
            /\ \A i, j \in DOMAIN l_paths :
                    LET a == SourceFiles[Abspath(l_paths[i])].frames[1]
                        b == SourceFiles[Abspath(l_paths[j])].frames[1]
                    IN  a.w = b.w /\ a.h = b.h
            /\ Len(l_paths) = 1 =>
                    \A f \in DOMAIN SourceFiles[Abspath(l_paths[1])].frames :
                        LET a == SourceFiles[Abspath(l_paths[1])].frames[1]
                            b == SourceFiles[Abspath(l_paths[1])].frames[f]
                        IN  a.w = b.w /\ a.h = b.h)
            => l_result.ok

\* A single file with two frames of three bands each was loaded: it gave two
\* channels (one per frame), not three.
C7_Witness ==
    /\ l_result.ok
    /\ l_paths = <<PathRgbStack>>
    /\ Len(l_result.channels) = 2
    /\ Len(l_result.channels[1].bands) = 3

----------------------------------------------------------------------------
\* Claims about the session (checked under Spec).

\* C2: save never overwrites.  In every round of the save dialog, a chosen
\* path that equals by absolute path a source path of the loaded stack, or
\* that exists on disk, writes no file and leads to a refusal after which the
\* dialog opens again; save_channels is called only for a path that is
\* neither; a cancelled dialog writes nothing; and no file appears on disk
\* without a call of save_channels.
C2_SaveNeverOverwrites ==
    [][/\ pc = "save_dialog" =>
            LET chosen == IF saved'.called THEN saved'.path ELSE output_path'
                taken == \/ \E i \in DOMAIN source_paths :
                                Abspath(source_paths[i]) = Abspath(chosen)
                         \/ Abspath(chosen) \in disk
            IN  /\ (chosen # NoPath /\ taken) =>
                        (disk' = disk /\ ~saved'.called /\ pc' = "save_refused")
                /\ saved'.called => (chosen # NoPath /\ ~taken)
                /\ chosen = NoPath => (disk' = disk /\ ~saved'.called /\ pc' = "idle")
       /\ pc = "save_refused" => (pc' = "save_dialog" /\ disk' = disk /\ ~saved'.called)
       /\ disk' # disk => (pc = "save_dialog" /\ saved'.called)
      ]_vars

\* The dialog has refused a.tif spelled relative to "." while the stack was
\* loaded from "a.tif", after an earlier save had written out.tif.
C2_Witness ==
    /\ pc = "save_refused"
    /\ output_path = <<".", "a.tif">>
    /\ source_paths[1] = <<"a.tif">>
    /\ PathOut \in disk

\* C6: saved stack composition.  The sequence handed to save_channels has one
\* image per loaded channel in the loaded order: the channel itself at the
\* reference index, whatever its TransformState, and apply_transform of
\* channel i with transforms[i] and the selected filter everywhere else.
C6_SavedComposition ==
    [][(pc = "save_dialog" /\ saved'.called) =>
            /\ DOMAIN saved'.channels = DOMAIN channels
            /\ \A i \in DOMAIN channels :
                saved'.channels[i] =
                    IF i - 1 = reference_index THEN channels[i]
                    ELSE ApplyTransform(channels[i], transforms[i], ResampleMethod(interp_var))
      ]_vars

\* A stack of three channels was saved with a filter other than the default,
\* the reference channel carrying a transform of its own and another channel
\* coming out changed.
C6_Witness ==
    /\ pc = "idle"
    /\ saved.called
    /\ last_save_path = saved.path
    /\ Len(channels) = 3
    /\ interp_var # "Bilinear"
    /\ transforms[reference_index + 1] # IdentityState
    /\ saved.channels[reference_index + 1] = channels[reference_index + 1]
    /\ \E i \in DOMAIN channels : saved.channels[i] # channels[i]

\* C8: session stack invariant.  Whenever channels are loaded there are at
\* least two and all have the same width and height; and a load of several
\* files that open but differ in size gives an error, not a stack.
C8_SessionStackInvariant ==
    /\ channels # <<>> =>
        /\ Len(channels) >= 2
        /\ \A i, j \in DOMAIN channels :
                channels[i].w = channels[j].w /\ channels[i].h = channels[j].h
    /\ \A paths \in AppLoadInputs :
        (/\ Len(paths) > 1
         /\ \A i \in DOMAIN paths : CanOpen(disk, paths[i])
         /\ \E i, j \in DOMAIN paths :
                LET a == SourceFiles[Abspath(paths[i])].frames[1]
                    b == SourceFiles[Abspath(paths[j])].frames[1]
                IN  a.w # b.w \/ a.h # b.h)
        => ~LoadChannelsFromPaths(paths, disk).ok

\* With a stack loaded, a load of files of different sizes has just been
\* refused.
C8_Witness ==
    /\ pc = "load_error"
    /\ shown = <<"Load failed", "All channels must have the same dimensions.">>
    /\ channels # <<>>

\* C9: a failed load keeps the session.  When load_images is given paths for
\* which the loader raises or returns fewer than two channels, the error is
\* reported and channels, transforms, reference index, active index, source
\* paths, metadata and last save path stay what they were.
C9_FailedLoadKeepsSession ==
    [][\A paths \in AppLoadInputs :
            (LoadFails(LoadChannelsFromPaths(paths, disk)) /\ LoadImages(paths)) =>
                /\ pc' = "load_error"
                /\ shown' # NoMessage
                /\ shown'[1] = "Load failed"
                /\ UNCHANGED <<channels, transforms, reference_index, active_index,
                               source_paths, tiffinfo, save_kwargs, last_save_path>>
      ]_vars

\* An edited and saved session, its second channel the reference, is still
\* in place while the error of a single-channel load is on screen.
C9_Witness ==
    /\ pc = "load_error"
    /\ shown = <<"Load failed", "Provide at least two channels to align.">>
    /\ channels # <<>>
    /\ reference_index = 1
    /\ EditCost(transforms) > 0
    /\ last_save_path = PathOut

----------------------------------------------------------------------------
\* Claims about the export under the display controls (checked under
\* SpecExport).

----------------------------------------------------------------------------
\* Claims about the helper functions (checked under SpecUtil).

\* C11: fit scale.  For positive image and canvas sizes compute_fit_scale
\* returns 1.0 when the image fits within the canvas in both dimensions, and
\* otherwise the smaller of canvas_w / img_w and canvas_h / img_h, floored at
\* 0.05; the result is always in [0.05, 1.0]; a non-positive image or canvas
\* dimension gives 1.0.
C11_FitScale ==
    (u_fn = "compute_fit_scale" /\ u_called) =>
        LET img == u_args[1]
            canvas_size == u_args[2]
            positive == img[1] > 0 /\ img[2] > 0 /\ canvas_size[1] > 0 /\ canvas_size[2] > 0
            fits == img[1] <= canvas_size[1] /\ img[2] <= canvas_size[2]
            ratio == IF canvas_size[1] * img[2] <= canvas_size[2] * img[1]
                     THEN Q(canvas_size[1], img[1]) ELSE Q(canvas_size[2], img[2])
        IN  /\ LeQ(Q(5, 100), u_result) /\ LeQ(u_result, Q(1, 1))
            /\ ~positive => EqQ(u_result, Q(1, 1))
            /\ positive /\ fits => EqQ(u_result, Q(1, 1))
            /\ positive /\ ~fits =>
                    IF LeQ(ratio, Q(5, 100)) THEN EqQ(u_result, Q(5, 100))
                    ELSE EqQ(u_result, ratio)

\* A 100 x 100 image on a 1 x 1 canvas: the ratio 0.01 is floored at 0.05.
C11_Witness ==
    /\ u_fn = "compute_fit_scale" /\ u_called
    /\ u_args = <<<<100, 100>>, <<1, 1>>>>
    /\ EqQ(u_result, Q(5, 100))

\* C12: scroll clamp.  For every requested fraction and every scroll size
\* above 0, clamp_scroll_fraction lies in [0, max(0, 1 - canvas / scroll)];
\* applied to its own result with the same sizes it returns that result; when
\* the scroll size is not larger than the canvas the result is 0.
C12_ScrollClamp ==
    (u_fn = "clamp_scroll_fraction" /\ u_called /\ u_args[2] > 0) =>
        LET scroll == u_args[2]
            canvas_size == u_args[3]
            upper == IF scroll - canvas_size > 0 THEN Q(scroll - canvas_size, scroll) ELSE Q(0, 1)
        IN  /\ LeQ(Q(0, 1), u_result.once) /\ LeQ(u_result.once, upper)
            /\ EqQ(u_result.twice, u_result.once)
            /\ scroll <= canvas_size => EqQ(u_result.once, Q(0, 1))

\* The fraction 0.8 of a 200 wide scroll region on a 100 wide canvas is
\* clamped to 0.5, and 0.5 is clamped to itself.
C12_Witness ==
    /\ u_fn = "clamp_scroll_fraction" /\ u_called
    /\ u_args = <<Q(4, 5), 200, 100>>
    /\ EqQ(u_result.once, Q(1, 2))
    /\ EqQ(u_result.twice, Q(1, 2))

\* C13: an invalid manual range falls back to auto.  For every call of
\* to_display_gray with a manual range whose max_val is not above its
\* min_val, the result is the auto-mode (extrema-stretched) mapping of the
\* same image.
C13_InvalidRangeIsAuto ==
    (u_fn = "to_display_gray" /\ u_called /\ u_args[2] # NoRange
            /\ u_args[2][2] <= u_args[2][1]) =>
        u_result = Autocontrast(ConvertL(u_args[1]))

\* C14: display-level round trip.  For an 8-bit image, to_display_gray with
\* the manual range (0, 255) returns every sample value unchanged.
C14_FullRangeIsIdentity ==
    (u_fn = "to_display_gray" /\ u_called /\ u_args[2] = <<0, 255>>) =>
        u_result = u_args[1]

\* An image with the values 40 and 128 comes back as it is under (0, 255).
C14_Witness ==
    /\ u_fn = "to_display_gray" /\ u_called
    /\ u_args[2] = <<0, 255>>
    /\ u_args[1].w = 2 /\ u_args[1].bands[1][<<0, 0>>] = 40 /\ u_args[1].bands[1][<<1, 0>>] = 128
    /\ u_result = u_args[1]

\* The text split at whitespace: the runs of other characters, in order.
RECURSIVE Words(_)
Words(text) ==
    LET rest == Strip(text, Whitespace)
        blanks == {j \in DOMAIN rest : rest[j] \in Whitespace}
        blank == IF blanks = {} THEN Len(rest) + 1
                 ELSE CHOOSE j \in blanks : \A k \in blanks : j <= k
    IN  IF rest = <<>> THEN <<>>
        ELSE <<SubSeq(rest, 1, blank - 1)>> \o Words(SubSeq(rest, blank, Len(rest)))

\* C16: drop parsing.  parse_drop_files splits the drop text into paths at
\* whitespace, whatever the letters and separators of the paths, and keeps
\* their order; a text that is one brace-delimited token gives the text
\* between the braces as one path; the empty text gives the empty list.
C16_DropParsing ==
    (u_fn = "parse_drop_files" /\ u_called) =>
        LET braces == {j \in DOMAIN u_args : u_args[j] \in {"{", "}"}}
        IN  /\ u_args = <<>> => u_result = <<>>
            /\ braces = {} => u_result = Words(u_args)
            /\ (Len(u_args) >= 3 /\ braces = {1, Len(u_args)}
                    /\ u_args[1] = "{" /\ u_args[Len(u_args)] = "}") =>
                u_result = <<SubSeq(u_args, 2, Len(u_args) - 1)>>

----------------------------------------------------------------------------
\* The renders and the render timer

\* The final view of the preview path for the session as it is.
FinalPreview ==
    Canvas("view", FALSE, "preview", BILINEAR, BILINEAR, reference_index, active_index,
           transforms[active_index + 1], opacity_var, zoom_var, view)

\* The timer has fired in this step: _render_final has run.
TimerFired == timers' # timers /\ render_job' = 0

\* C15: Acceleration fallback.  When the accelerated transform is selected
\* and raises, the overlay a render computes is what the software
\* apply_transform gives for the same image and state with the bilinear
\* filter; the exception does not reach the caller, so that a final render
\* of the preview completes with acceleration selected; and the render
\* leaves the GPU setting, the transforms and the display images as they were.
C15_AccelFallback ==
    [][/\ (overlay_cache' # overlay_cache /\ overlay_cache'.backend = "fallback") =>
            /\ overlay_cache'.moved = ApplyTransform(display_channels'[active_index' + 1],
                                                     transforms'[active_index' + 1], BILINEAR)
            /\ overlay_cache_key' = <<reference_index', active_index',
                                      transforms'[active_index' + 1].dx,
                                      transforms'[active_index' + 1].dy,
                                      transforms'[active_index' + 1].angle_deg,
                                      opacity_var', display_cache_version'>>
            /\ use_gpu_var' /\ gpu_available'
       /\ (TimerFired /\ use_gpu_var /\ gpu_available /\ ~full_res_view_var
                /\ display_channels # <<>>) =>
            /\ canvas' = FinalPreview
            /\ overlay_cache' # NoOverlay
            /\ UNCHANGED <<use_gpu_var, gpu_available, transforms, display_channels,
                           preview_channels, display_cache_version>>
      ]_vars

\* A moved channel is shown through the fallback.
C15_Witness ==
    /\ use_gpu_var /\ gpu_available
    /\ canvas.kind = "view" /\ canvas.path = "preview"
    /\ overlay_cache.backend = "fallback"
    /\ transforms[active_index + 1] # IdentityState
    /\ overlay_cache.moved # display_channels[active_index + 1]

InputEvent ==
    \/ opacity_var' # opacity_var
    \/ zoom_var' # zoom_var
    \/ transforms' # transforms /\ EditCost(transforms') > 0

\* The canvas after the step shows the session after the step.
ShowsLastInput(draft) ==
    IF channels' = <<>> THEN canvas' = EmptyCanvas
    ELSE /\ canvas'.kind = "view" /\ canvas'.draft = draft
         /\ canvas'.state = transforms'[active_index' + 1]
         /\ canvas'.opacity = opacity_var'
         /\ canvas'.zoom = zoom_var' /\ canvas'.view = view'

\* C18: Draft then final.  Every input event that goes through
\* _schedule_render renders a draft of the state it leaves and arms the timer;
\* the firing of the timer renders a final view of the transform, zoom and
\* scroll state of the last input; with no timer pending the view on the
\* canvas is a final one; and a pending timer does fire.
C18_DraftThenFinal ==
    /\ [][/\ InputEvent => ShowsLastInput(TRUE) /\ render_job' # 0 /\ timers' = {render_job'}
          /\ TimerFired => ShowsLastInput(FALSE)
          /\ (timers' = {} /\ canvas'.kind = "view") => ~canvas'.draft
         ]_vars
    /\ (timers # {}) ~> (timers = {})

\* C19: Filter per render phase.  In both render paths a draft render
\* resamples with nearest-neighbour only, and a final render resamples with
\* the filter selected in the interpolation box, both for moving the active
\* channel and for scaling to the display.
C19_FilterPerPhase ==
    [][(canvas' # canvas /\ canvas'.kind = "view") =>
        IF canvas'.draft
        THEN canvas'.move_filter = NEAREST /\ canvas'.scale_filter = NEAREST
        ELSE /\ canvas'.move_filter = ResampleMethod(interp_var')
             /\ canvas'.scale_filter = ResampleMethod(interp_var')
      ]_vars

\* A setting the display images depend on, or the loaded channel set, has
\* changed in this step and channels are loaded after it.
Invalidated ==
    /\ channels' # <<>>
    /\ \/ auto_levels_var' # auto_levels_var
       \/ display_min_var' # display_min_var
       \/ display_max_var' # display_max_var
       \/ brightness_var' # brightness_var
       \/ preview_quality_var' # preview_quality_var
       \/ fast_preview_var' # fast_preview_var
       \/ channels' # channels

\* C20: Cache version counter.  With channels loaded, every change of the
\* display range mode or values, of the brightness, of the preview quality
\* (the fast-preview toggle included) or of the loaded channel set strictly
\* increases _display_cache_version, rebuilds the display image of every
\* channel and drops the overlay cached under the old version; the counter
\* never decreases.
C20_CacheVersion ==
    [][/\ display_cache_version' >= display_cache_version
       /\ Invalidated =>
            /\ display_cache_version' > display_cache_version
            /\ Len(display_channels') = Len(channels')
            /\ \/ overlay_cache' = NoOverlay /\ overlay_cache_key' = NoKey
               \/ overlay_cache_key'[7] = display_cache_version'
      ]_vars

----------------------------------------------------------------------------
\* The session: transform states, indices, zoom

\* Only the state of channel index (from 0) differs between the lists.
OnlyChanged(before, after, index) ==
    /\ Len(after) = Len(before)
    /\ index + 1 \in DOMAIN before
    /\ \A i \in DOMAIN before : i # index + 1 => after[i] = before[i]

\* The steps an arrow key may take, in half pixels: plain, with Shift, with Alt.
MoveSteps == {StepVar, StepVar * CoarseVar, StepVar \div 2}

\* C21: Transform state frame.  A step that changes a transform state is a
\* move or a rotation, which changes the state of the active channel only
\* (dx or dy by direction times step, angle_deg by direction times the
\* rotation step) and leaves the state of the reference channel alone, or
\* it is a reset or a successful load, which leave the states they touch at
\* (0, 0, 0); no handler changes a state under a dialog or a message box, and
\* none that ends in one (a failed load) does; and there is one transform
\* state per channel.
C21_TransformFrame ==
    [][/\ Len(transforms') = Len(channels')
       /\ transforms' # transforms => pc = "idle" /\ pc' = "idle"
       /\ transforms' # transforms =>
            \/ \A i \in DOMAIN transforms' : transforms'[i] = IdentityState
            \/ /\ OnlyChanged(transforms, transforms', active_index)
               /\ transforms'[active_index + 1] = IdentityState
               /\ UNCHANGED <<channels, reference_index, active_index>>
            \/ /\ OnlyChanged(transforms, transforms', active_index)
               /\ UNCHANGED <<channels, reference_index, active_index>>
               /\ transforms'[reference_index + 1] = transforms[reference_index + 1]
               /\ LET old == transforms[active_index + 1]
                      new == transforms'[active_index + 1]
                  IN  \/ /\ new.angle_deg = old.angle_deg
                         /\ \E step \in MoveSteps, dir \in {-1, 1} :
                              \/ new.dx = old.dx + dir * step /\ new.dy = old.dy
                              \/ new.dy = old.dy + dir * step /\ new.dx = old.dx
                      \/ /\ new.dx = old.dx /\ new.dy = old.dy
                         /\ \E dir \in {-1, 1}, factor \in {1, 10} :
                              new.angle_deg = old.angle_deg + dir * 90 * factor
      ]_vars

\* Two channels of three have been moved, one after the other.
C21_Witness ==
    /\ Len(channels) = 3
    /\ transforms[reference_index + 1] = IdentityState
    /\ transforms[active_index + 1] # IdentityState
    /\ \E i \in DOMAIN transforms :
          i # active_index + 1 /\ transforms[i] # IdentityState

\* C22: Reset.  _reset_active leaves the state of the active channel at
\* (0, 0, 0) and the other states as they were; _reset_all leaves every state
\* at (0, 0, 0); neither changes the channel list or the reference or active
\* index, and neither does anything when no channels are loaded.  A
\* successful load leaves every state at (0, 0, 0).
C22_Reset ==
    [][/\ ResetActive =>
            /\ UNCHANGED <<channels, reference_index, active_index>>
            /\ IF channels = <<>> THEN UNCHANGED transforms
               ELSE /\ transforms'[active_index + 1] = IdentityState
                    /\ OnlyChanged(transforms, transforms', active_index)
       /\ ResetAll =>
            /\ UNCHANGED <<channels, reference_index, active_index>>
            /\ Len(transforms') = Len(transforms)
            /\ \A i \in DOMAIN transforms' : transforms'[i] = IdentityState
       /\ (Load /\ pc' = "idle") =>
            /\ Len(channels') >= 2 /\ Len(transforms') = Len(channels')
            /\ \A i \in DOMAIN transforms' : transforms'[i] = IdentityState
      ]_vars

\* The active channel is back at (0, 0, 0) while another of the three
\* channels is still moved.
C22_Witness ==
    /\ Len(channels) = 3
    /\ transforms[active_index + 1] = IdentityState
    /\ \E i \in DOMAIN transforms :
          /\ i # active_index + 1 /\ i # reference_index + 1
          /\ transforms[i].dx # 0 /\ transforms[i].angle_deg = 0

\* C23: Zoom range.  After every handler the zoom factor is in [0.1, 32.0];
\* _zoom_in and _zoom_out change it by 0.25, or leave it at the bound that
\* the step would pass; _zoom_fit sets it to 1.0.
C23_ZoomRange ==
    [][/\ ZoomMin <= zoom_var' /\ zoom_var' <= ZoomMax
       /\ ZoomIn => zoom_var' = IF zoom_var + ZoomStep > ZoomMax THEN ZoomMax
                                ELSE zoom_var + ZoomStep
       /\ ZoomOut => zoom_var' = IF zoom_var - ZoomStep < ZoomMin THEN ZoomMin
                                 ELSE zoom_var - ZoomStep
       /\ ZoomFit => zoom_var' = 100
      ]_vars

\* Zoomed in one step from 1.0, with channels loaded.
C23_Witness == zoom_var = 100 + ZoomStep /\ channels # <<>>

----------------------------------------------------------------------------
\* The geometry of the view

\* The positions at which the rectangles are compared: every half pixel
\* from -2 to 310.
HalfPixels == {Q(k, 2) : k \in -4 .. 620}

\* The half-pixel positions of the closed interval from lo to hi.
Between(lo, hi) == {p \in HalfPixels : LeQ(lo, p) /\ LeQ(p, hi)}

\* C24: Visible rectangle.  A rectangle _viewport_geometry returns lies
\* within the scaled image with its left and upper edge strictly before its
\* right and lower edge, is no wider and no higher than the canvas, and holds
\* exactly the positions that are in the canvas window at the scroll position
\* and in the scaled image; nothing is returned exactly when these two have
\* no area in common.
C24_VisibleRect ==
    (u_fn = "_viewport_geometry" /\ u_called) =>
        LET g == u_result
            disp_w == Max2(IntQ(MulQ(Q(u_args[1][1], 1), u_args[2])), 1)
            disp_h == Max2(IntQ(MulQ(Q(u_args[1][2], 1), u_args[2])), 1)
            left == SubQ(u_args[7], Q(Max2((u_args[5] - disp_w) \div 2, 0), 1))
            top == SubQ(u_args[8], Q(Max2((u_args[6] - disp_h) \div 2, 0), 1))
            common_x == Between(left, AddQ(left, Q(u_args[3], 1))) \cap Between(Q(0, 1), Q(disp_w, 1))
            common_y == Between(top, AddQ(top, Q(u_args[4], 1))) \cap Between(Q(0, 1), Q(disp_h, 1))
        IN  /\ g.none <=> (Cardinality(common_x) < 2 \/ Cardinality(common_y) < 2)
            /\ ~g.none =>
                /\ g.disp_w = disp_w /\ g.disp_h = disp_h
                /\ LeQ(Q(0, 1), g.vis_x0) /\ LtQ(g.vis_x0, g.vis_x1) /\ LeQ(g.vis_x1, Q(disp_w, 1))
                /\ LeQ(Q(0, 1), g.vis_y0) /\ LtQ(g.vis_y0, g.vis_y1) /\ LeQ(g.vis_y1, Q(disp_h, 1))
                /\ LeQ(SubQ(g.vis_x1, g.vis_x0), Q(u_args[3], 1))
                /\ LeQ(SubQ(g.vis_y1, g.vis_y0), Q(u_args[4], 1))
                /\ Between(g.vis_x0, g.vis_x1) = common_x
                /\ Between(g.vis_y0, g.vis_y1) = common_y

\* A 250 x 125 image scrolled to (75, 2.5) under a 100 x 100 canvas: the
\* window is inside the image.
C24_Witness ==
    /\ u_fn = "_viewport_geometry" /\ u_called
    /\ u_args = <<<<100, 50>>, Q(5, 2), 100, 100, 250, 125, Q(75, 1), Q(5, 2)>>
    /\ ~u_result.none
    /\ EqQ(u_result.vis_x0, Q(75, 1)) /\ EqQ(u_result.vis_x1, Q(175, 1))
    /\ EqQ(u_result.vis_y0, Q(5, 2)) /\ EqQ(u_result.vis_y1, Q(205, 2))


\* The render paths that have run in the drawn call of _render_view.
RenderedPaths ==
    IF u_fn # "_render_view" THEN {}
    ELSE {r \in {u_result.preview, u_result.fullres} : r # NotRendered}

\* The source rectangle lies within the image and is not empty, and it
\* starts at or before the source position of the upper left corner.
CropWithin(r) ==
    /\ 0 <= r.base.x0 /\ r.base.x0 < r.base.x1 /\ r.base.x1 <= r.base_size[1]
    /\ 0 <= r.base.y0 /\ r.base.y0 < r.base.y1 /\ r.base.y1 <= r.base_size[2]
    /\ LeQ(Q(r.base.x0, 1), DivQ(r.geometry.vis_x0, r.scale))
    /\ LeQ(Q(r.base.y0, 1), DivQ(r.geometry.vis_y0, r.scale))

\* The source rectangle ends before the source position of the right
\* (lower) edge of the visible rectangle.
CutOffX(r) == LtQ(Q(r.base.x1, 1), DivQ(r.geometry.vis_x1, r.scale))
CutOffY(r) == LtQ(Q(r.base.y1, 1), DivQ(r.geometry.vis_y1, r.scale))

\* C25 as stated: Source crop covers the view.  In both render paths the
\* source rectangle starts at or before vis_x0/scale, ends at or after
\* vis_x1/scale (likewise in y), lies within the image and is not empty.
C25_CropCovers ==
    \A r \in RenderedPaths :
        /\ ~r.geometry.none
        /\ CropWithin(r)
        /\ ~CutOffX(r) /\ ~CutOffY(r)

\* C25, amended: in both render paths a visible rectangle is found, the
\* source rectangle starts at or before vis_x0/scale, lies within the image
\* and is not empty; it ends at or after vis_x1/scale unless the scaled image
\* is less than one pixel wide (image width * scale < 1), and then it spans
\* the whole width of the image (likewise in y).
C25_CropCoversImage ==
    \A r \in RenderedPaths :
        /\ ~r.geometry.none
        /\ CropWithin(r)
        /\ CutOffX(r) => /\ LtQ(MulQ(Q(r.base_size[1], 1), r.scale), Q(1, 1))
                         /\ r.base.x0 = 0 /\ r.base.x1 = r.base_size[1]
        /\ CutOffY(r) => /\ LtQ(MulQ(Q(r.base_size[2], 1), r.scale), Q(1, 1))
                         /\ r.base.y0 = 0 /\ r.base.y1 = r.base_size[2]

\* A 4 x 2 image at zoom 0.1 rendered in full resolution: one displayed
\* pixel stands for 10 source pixels, and the source rectangle is the image.
C25_Witness ==
    /\ u_fn = "_render_view" /\ u_args[1] = <<4, 2>> /\ u_args[3] = 10
    /\ u_result.fullres # NotRendered
    /\ CutOffX(u_result.fullres)
    /\ u_result.fullres.base = [x0 |-> 0, y0 |-> 0, x1 |-> 4, y1 |-> 2]


\* What a render path puts on the canvas: the displayed image size, the
\* scroll region and the place of the visible rectangle.
Placement(r) == <<r.disp_w, r.disp_h, r.scroll_w, r.scroll_h, r.pos_x, r.pos_y>>

\* C27 as stated: Render path equivalence of geometry.  For the same image,
\* zoom, canvas size and scroll fraction the preview path and the
\* full-resolution path compute the same displayed size, scroll region and
\* placement, also when the preview is a downsampled copy.
C27_SameGeometry ==
    (u_fn = "_render_view" /\ u_result.preview # NotRendered /\ u_result.fullres # NotRendered)
        => Placement(u_result.preview) = Placement(u_result.fullres)


\* C28: Reference and active stay distinct.  With channels loaded, both
\* indices lie in 0 .. number of channels - 1 and differ, whatever loads,
\* combo selections and Tab presses came before.
C28_DistinctIndices ==
    channels # <<>> =>
        /\ reference_index \in 0 .. Len(channels) - 1
        /\ active_index \in 0 .. Len(channels) - 1
        /\ reference_index # active_index

\* Two channels are loaded while the combo boxes still offer three, the last
\* entry was selected as reference while the active box showed 'Channel 2':
\* both selections name the second channel, and the active index moved on.
C28_Witness ==
    /\ Len(channels) = 2 /\ combo_values = 3
    /\ reference_var = 2 /\ reference_index = 1
    /\ active_index = 0 /\ active_var = 0


----------------------------------------------------------------------------
\* The overlay cache

\* The key _render_view computes in the present state.
CurrentKey ==
    <<reference_index, active_index, transforms[active_index + 1].dx,
      transforms[active_index + 1].dy, transforms[active_index + 1].angle_deg,
      opacity_var, display_cache_version>>

\* A render of the preview path would take the overlay from the cache.
Reusable ==
    /\ channels # <<>> /\ display_channels # <<>> /\ ~full_res_view_var
    /\ canvas.kind = "view"
    /\ overlay_cache # NoOverlay
    /\ overlay_cache_key = CurrentKey

\* The overlays a render may compose in the present state, one for each
\* outcome of the selected backend.
Recomputed ==
    {[base |-> display_channels[reference_index + 1],
      moved |-> moved.image, opacity |-> opacity_var,
      filter |-> moved.filter, backend |-> moved.backend] :
        moved \in {TransformPreview(display_channels[active_index + 1],
                                    transforms[active_index + 1],
                                    use_gpu_var /\ gpu_available, accel) :
                     accel \in IF use_gpu_var /\ gpu_available
                               THEN AccelOutcomes ELSE {"raises"}}}

\* C29 as stated: Overlay cache is never stale.  Whenever a render of the
\* preview path takes the overlay from the cache, the cached overlay is one
\* that composing it anew from the present state gives: the same reference
\* image, moved active image and opacity, made by the transform backend that
\* is selected now.
C29_OverlayFresh == Reusable => overlay_cache \in Recomputed


----------------------------------------------------------------------------
\* Fast preview

\* C30: Fast-preview round trip.  Turning fast preview on sets the preview
\* quality to 0.5 MP and remembers the value it had; the remembered value
\* stays while fast preview is on; turning it off restores the remembered
\* value; and a preview-quality change event that arrives while fast preview
\* is on leaves the preview and display images, the overlay cache and the
\* cache version as they are.
C30_FastPreviewRoundTrip ==
    [][/\ (~fast_preview_var /\ fast_preview_var') =>
            /\ preview_quality_var' = 5
            /\ preview_quality_backup' = preview_quality_var
       /\ (fast_preview_var /\ fast_preview_var') =>
            preview_quality_backup' = preview_quality_backup
       /\ (fast_preview_var /\ ~fast_preview_var') =>
            /\ preview_quality_var' = preview_quality_backup
            /\ preview_quality_backup # 0
       /\ (fast_preview_var /\ OnPreviewQualityChange) =>
            UNCHANGED <<preview_channels, display_channels, display_cache_version,
                        overlay_cache_key, overlay_cache, canvas>>
      ]_vars

\* Fast preview was turned on at 4.0 MP and off again, with channels loaded.
C30_Witness ==
    /\ channels # <<>>
    /\ ~fast_preview_var
    /\ preview_quality_backup = 40 /\ preview_quality_var = 40


----------------------------------------------------------------------------
\* Centring

\* A render drew in this step.
Drew == v_photo' # v_photo

\* The fraction that centres content of the size scroll in a canvas of the
\* size canvas_size: half of the excess over the scroll size, 0 without excess.
CentreOf(scroll, canvas_size) ==
    IF scroll > canvas_size THEN Q(scroll - canvas_size, 2 * scroll) ELSE Q(0, 1)

\* The canvas is at the centre of the scroll region of this step's render.
Centred ==
    /\ EqQ(v_scroll'[1], CentreOf(Layout(ViewNow').scroll_w, v_winfo'[1]))
    /\ EqQ(v_scroll'[2], CentreOf(Layout(ViewNow').scroll_h, v_winfo'[2]))

\* The canvas is at the fractions x and y, clamped to the scroll region of
\* this step's render.
KeptAt(x, y) ==
    /\ EqQ(v_scroll'[1], ClampScrollFraction(x, Layout(ViewNow').scroll_w, v_winfo'[1]))
    /\ EqQ(v_scroll'[2], ClampScrollFraction(y, Layout(ViewNow').scroll_h, v_winfo'[2]))

\* A load of a stack, or a rebuild of the preview of loaded channels.
LoadedOrRebuilt ==
    \/ VLoad
    \/ v_channels # NoChannels /\ VPreviewQualityChange /\ ~v_fast
    \/ v_channels # NoChannels /\ VFastPreviewToggle

\* C26 as stated: Centering on load.  A load or a preview rebuild is
\* followed by a render at the centre: its own render draws centred and
\* clears the flag, or the flag stays set for the render to come.  A render
\* that draws while the flag is set draws centred and clears it.  Every other
\* render that draws, unless a load, a rebuild or a zoom-fit comes with it,
\* keeps the scroll fraction of the canvas (the one the scroll bar was just
\* dragged to), clamped.
C26_CenterOnLoad ==
    [][/\ LoadedOrRebuilt => IF Drew THEN Centred /\ ~v_center' ELSE v_center'
       /\ (v_center /\ Drew) => (Centred /\ ~v_center')
       /\ (~v_center /\ Drew /\ ~LoadedOrRebuilt /\ ~VZoomFit) =>
            \/ KeptAt(v_scroll[1], v_scroll[2])
            \/ VScroll /\ \E f \in DragFractions :
                            KeptAt(f, v_scroll[2]) \/ KeptAt(v_scroll[1], f)
      ]_vars

=============================================================================
